---------------------------- MODULE Spec2Model ----------------------------
(***************************************************************************)
(* A model of reaper-mcp: the command client (ReapyClient, client.py), its *)
(* dispatch and one-shot auto-configuration, the handlers' index            *)
(* validation against the native project, and the tool facade (server.py). *)
(*                                                                         *)
(* The native REAPER project is outside the repository; the model keeps    *)
(* the part of it the handlers count and index (tracks, their items and    *)
(* FX chains).  Native readings that are not part of that state appear in  *)
(* results as opaque values named after the native call that yields them.  *)
(***************************************************************************)
EXTENDS Integers, Sequences, FiniteSets, TLC

\* ------------------------------------------------------------- bounds
MaxTracks == 2
MaxItems == 1
\* ... and in the runs of duplicate_item, where a copy needs an item to copy.
MaxCopies == 3
MaxFx == 1
MaxAttempts == 2
MaxSent == 2
MaxNotes == 3
MaxMarkers == 3

\* ------------------------------------------------------ Python values
\* Values that end up in result mappings carry their Python type, which is
\* what json.dumps looks at.
PyInt(n) == [py |-> "int", v |-> ToString(n)]
PyFloat(x) == [py |-> "float", v |-> ToString(x)]
PyStr(s) == [py |-> "str", v |-> s]
PyBool(b) == [py |-> "bool", v |-> ToString(b)]
PyBytes(s) == [py |-> "bytes", v |-> s]
PyList(s) == [py |-> "list", items |-> s]
PyMap(m) == [py |-> "dict", items |-> m]
\* A reading of the native project that the model's state does not hold.
NativeFloat(call) == [py |-> "float", v |-> call]
NativeStr(call) == [py |-> "str", v |-> call]
NativeInt(call) == [py |-> "int", v |-> call]
NativeBool(call) == [py |-> "bool", v |-> call]

\* Python floats: a finite one counts halves (h = 2x), and there are the
\* infinities and NaN.  Comparisons with NaN are all false.
Flt(kind, h) == [kind |-> kind, h |-> h]
Finite(h) == Flt("finite", h)
Whole(n) == Finite(2 * n)
PosInf == Flt("inf", 0)
NegInf == Flt("-inf", 0)
NaN == Flt("nan", 0)
FloatKey(x) ==
    CASE x.kind = "finite" -> x.h
      [] x.kind = "inf" -> 1000000
      [] x.kind = "-inf" -> -1000000
FloatLt(x, y) == x.kind # "nan" /\ y.kind # "nan" /\ FloatKey(x) < FloatKey(y)
\* The builtins min(x, y) and max(x, y): the first argument unless the second
\* compares smaller (min) or greater (max).
PyMinKeepsFirst(x, y) == x
PyMin(x, y) == IF FloatLt(y, x) THEN y ELSE x
PyMax(x, y) == IF FloatLt(x, y) THEN y ELSE x
\* repr of a float, as it appears in a result.
FloatRepr(x) ==
    CASE x.kind = "finite" ->
           LET m == IF x.h < 0 THEN -x.h ELSE x.h IN
           (IF x.h < 0 THEN "-" ELSE "") \o ToString(m \div 2)
               \o (IF m % 2 = 0 THEN ".0" ELSE ".5")
      [] OTHER -> x.kind
FloatResult(x) == [py |-> "float", v |-> FloatRepr(x)]
\* Argument values of the numeric parameters: an int, a float or a str.
IntArg(n) == [py |-> "int", kind |-> "finite", h |-> 2 * n]
FloatArg(x) == [py |-> "float", kind |-> x.kind, h |-> x.h]
StrArg(s) == [py |-> "str", kind |-> s, h |-> 0]
\* float(v): the float of an int or a float; a str that is not a number
\* raises ValueError.
PyFloatOf(v) ==
    IF v.py = "str"
    THEN [exc |-> [cls |-> "ValueError",
                   msg |-> "could not convert string to float: '" \o v.kind \o "'"],
          x |-> NaN]
    ELSE [exc |-> [cls |-> "None", msg |-> ""], x |-> Flt(v.kind, v.h)]

\* params: None or a mapping (a function from argument names to values).
PyNone == [isNone |-> TRUE, map |-> <<>>]
PyDict(m) == [isNone |-> FALSE, map |-> m]
EmptyDict == PyDict(<<>>)

\* ---------------------------------------------------------- exceptions
\* An exception is its class and str(e).
Exc(cls, msg) == [cls |-> cls, msg |-> msg]
NoExc == Exc("None", "")
ValueError(msg) == Exc("ValueError", msg)
TypeError(msg) == Exc("TypeError", msg)
RuntimeError(msg) == Exc("RuntimeError", msg)

\* The direct base class of each exception class the model raises.
BaseOfFlat(cls) == "Exception"
BaseOf(cls) ==
    CASE cls = "ConnectionRefusedError" -> "ConnectionError"
      [] cls = "ConnectionError" -> "OSError"
      [] cls = "FileNotFoundError" -> "OSError"
      [] cls = "NotImplementedError" -> "RuntimeError"
      [] cls = "RecursionError" -> "RuntimeError"
      [] OTHER -> "Exception"

RECURSIVE IsInstance(_, _)
IsInstance(cls, base) ==
    IF cls = base THEN TRUE
    ELSE IF cls = "Exception" THEN FALSE
    ELSE IsInstance(BaseOf(cls), base)

\* ------------------------------------------------------ native project
\* A track: its name (P_NAME), its media items, its FX chain and its volume
\* (D_VOL) and pan (D_PAN), which a new track has at unity gain and centre.
NewTrack ==
    [name |-> "", items |-> <<>>, fx |-> <<>>, D_VOL |-> Whole(1), D_PAN |-> Whole(0)]
\* What the native project holds besides its tracks: the tempo, and the
\* markers and regions in the order EnumProjectMarkers yields them.
\* ... the edit cursor (in the units of project time, see TimeMap2_QNToTime) and
\* the selected items, each named by its track's and its own index.
\* ... the time signature last written and the transport's play state, a bit
\* mask: 1 playing, 2 paused, 4 recording.
NewProject ==
    [tempo |-> Whole(120), markers |-> <<>>, cursor |-> 0, selected |-> {},
     signature |-> [numerator |-> 4, denominator |-> 4], play_state |-> 0]
\* A media item: the kind of its active take ("none": no take) and the notes
\* the take holds, in the take's order.
MidiItem == [take |-> "midi", notes |-> <<>>]
AudioItem == [take |-> "audio", notes |-> <<>>]
EmptyItem == [take |-> "none", notes |-> <<>>]

\* The plugins the native host resolves by name, and their parameter counts.
NumParams == 2
InstalledFx == {"ReaEQ"}
NumParamsOf(fx_name) == IF fx_name = "ReaEQ" THEN NumParams ELSE 0
\* The display name the host reports for a plugin it resolved.
DisplayName(fx_name) == "VST: " \o fx_name \o " (Cockos)"
\* A parameter: its value and the minimum and maximum TrackFX_GetParam reports.
Param(value, min, max) == [value |-> value, min |-> min, max |-> max]
NewFx(fx_name) ==
    [name |-> DisplayName(fx_name), nparams |-> NumParamsOf(fx_name),
     params |-> [i \in 1..NumParamsOf(fx_name) |-> Param(Whole(1), Whole(0), Whole(1))]]

InsertAt(s, i, x) == SubSeq(s, 1, i) \o <<x>> \o SubSeq(s, i + 1, Len(s))
RemoveAt(s, i) == SubSeq(s, 1, i) \o SubSeq(s, i + 2, Len(s))
Clamp(lo, hi, x) == IF x < lo THEN lo ELSE IF x > hi THEN hi ELSE x

RECURSIVE Repeat(_, _)
Repeat(s, n) == IF n <= 0 THEN <<>> ELSE s \o Repeat(s, n - 1)

\* Native calls that change the project (the others only read it).
MutatingCalls ==
    {"InsertTrackAtIndex", "DeleteTrack", "GetSetMediaTrackInfo_String(set)",
     "SetMediaTrackInfo_Value", "CreateNewMIDIItemInProj",
     "DeleteTrackMediaItem", "SelectAllMediaItems", "SetMediaItemSelected",
     "Main_OnCommand(40698)", "Main_OnCommand(42398)", "SetEditCurPos",
     "GetSetMediaItemTakeInfo_String(set)", "MIDI_DeleteNote",
     "MIDI_InsertNote", "MIDI_Sort", "OnPlayButton", "OnStopButton",
     "SetCurrentBPM", "SetTempoTimeSigMarker", "UpdateTimeline",
     "Undo_DoUndo2", "GetSet_LoopTimeRange(set)", "TrackFX_AddByName",
     "TrackFX_Delete", "TrackFX_SetParam", "AddProjectMarker"}

\* ------------------------------------------------------ handler frames
\* What running a handler body yields: the exception it raised (NoExc when it
\* returned), its result mapping, the project it leaves and the native calls
\* it made, in order.
Ok(result, trs, calls) ==
    [exc |-> NoExc, result |-> result, tracks |-> trs, calls |-> calls]
Raise(e, trs, calls) ==
    [exc |-> e, result |-> <<>>, tracks |-> trs, calls |-> calls]

RangeMsg(what, idx, count) ==
    what \o " index " \o ToString(idx) \o " out of range (0-"
        \o ToString(count - 1) \o ")"

\* A lookup that fetches the native track before comparing the index.
_get_track_fetches_first(trs, track_index) ==
    LET count == Len(trs) IN
    [exc |-> IF track_index < 0 \/ track_index >= count
             THEN ValueError(RangeMsg("Track", track_index, count)) ELSE NoExc,
     calls |-> <<"CountTracks", "GetTrack">>]

\* _get_track: the lookup's exception (NoExc when the index passes) and calls.
_get_track(trs, track_index) ==
    LET count == Len(trs) IN
    IF track_index < 0 \/ track_index >= count
    THEN [exc |-> ValueError(RangeMsg("Track", track_index, count)),
          calls |-> <<"CountTracks">>]
    ELSE [exc |-> NoExc, calls |-> <<"CountTracks", "GetTrack">>]

\* _get_item: track lookup, then the item index against the track's item count.
_get_item(trs, track_index, item_index) ==
    LET t == _get_track(trs, track_index) IN
    IF t.exc # NoExc THEN t
    ELSE LET count == Len(trs[track_index + 1].items) IN
         IF item_index < 0 \/ item_index >= count
         THEN [exc |-> ValueError(RangeMsg("Item", item_index, count)),
               calls |-> t.calls \o <<"CountTrackMediaItems">>]
         ELSE [exc |-> NoExc,
               calls |-> t.calls \o <<"CountTrackMediaItems", "GetTrackMediaItem">>]

\* An active-take lookup that hands on whatever GetActiveTake returned.
_get_active_take_unchecked(trs, track_index, item_index) ==
    LET i == _get_item(trs, track_index, item_index) IN
    IF i.exc # NoExc THEN i
    ELSE [exc |-> NoExc, calls |-> i.calls \o <<"GetActiveTake">>]

\* _get_active_take: item lookup, then the item's active take.
_get_active_take(trs, track_index, item_index) ==
    LET i == _get_item(trs, track_index, item_index) IN
    IF i.exc # NoExc THEN i
    ELSE IF trs[track_index + 1].items[item_index + 1].take = "none"
         THEN [exc |-> ValueError("No active take on item " \o ToString(item_index)
                                  \o ", track " \o ToString(track_index)),
               calls |-> i.calls \o <<"GetActiveTake">>]
         ELSE [exc |-> NoExc, calls |-> i.calls \o <<"GetActiveTake">>]


\* ---------------------------------------------------- Project / Info
\* bool(play_state & bit), for bit a power of two.
BitSet(play_state, bit) == (play_state \div bit) % 2 = 1

\* A get_project_info that reports the denominator last written.
_get_project_info_reads_denominator(trs, prj) ==
    Ok([tempo |-> NativeFloat("GetProjectTimeSignature2.bpm"),
        signature_numerator |-> NativeInt("int(GetProjectTimeSignature2.bpi)"),
        signature_denominator |-> PyInt(prj.signature.denominator),
        track_count |-> PyInt(Len(trs)),
        is_playing |-> PyBool(BitSet(prj.play_state, 1)),
        is_recording |-> PyBool(BitSet(prj.play_state, 4)),
        cursor_position |-> NativeFloat("timeToQN(GetCursorPosition)")],
       trs,
       <<"GetProjectTimeSignature2", "GetPlayState", "GetCursorPosition",
         "TimeMap2_timeToQN", "CountTracks">>)

_get_project_info(trs, prj) ==
    Ok([tempo |-> NativeFloat("GetProjectTimeSignature2.bpm"),
        signature_numerator |-> NativeInt("int(GetProjectTimeSignature2.bpi)"),
        signature_denominator |-> PyInt(4),
        track_count |-> PyInt(Len(trs)),
        is_playing |-> PyBool(BitSet(prj.play_state, 1)),
        is_recording |-> PyBool(BitSet(prj.play_state, 4)),
        cursor_position |-> NativeFloat("timeToQN(GetCursorPosition)")],
       trs,
       <<"GetProjectTimeSignature2", "GetPlayState", "GetCursorPosition",
         "TimeMap2_timeToQN", "CountTracks">>)

\* The item listing loop shared by _get_track_info and _get_items.
ItemEntry(items, i) ==
    PyMap([index |-> PyInt(i - 1),
           name |-> IF items[i].take = "none" THEN PyStr("")
                    ELSE NativeStr("GetSetMediaItemTakeInfo_String.P_NAME"),
           position |-> NativeFloat("timeToQN(D_POSITION)"),
           length |-> NativeFloat("timeToQN(D_POSITION + D_LENGTH) - timeToQN(D_POSITION)"),
           is_midi |-> PyBool(items[i].take = "midi")])

ItemEntryCalls(item) ==
    <<"GetTrackMediaItem", "GetMediaItemInfo_Value", "GetMediaItemInfo_Value",
      "GetActiveTake">>
    \o (IF item.take = "none" THEN <<>>
        ELSE <<"GetSetMediaItemTakeInfo_String(get)", "TakeIsMIDI">>)
    \o <<"TimeMap2_timeToQN", "TimeMap2_timeToQN", "TimeMap2_timeToQN">>

RECURSIVE ItemListCalls(_, _)
ItemListCalls(items, i) ==
    IF i > Len(items) THEN <<>>
    ELSE ItemEntryCalls(items[i]) \o ItemListCalls(items, i + 1)

ItemList(items) == [i \in 1..Len(items) |-> ItemEntry(items, i)]

_get_track_info(a, trs) ==
    LET t == _get_track(trs, a.track_index) IN
    IF t.exc # NoExc THEN Raise(t.exc, trs, t.calls)
    ELSE LET track == trs[a.track_index + 1] IN
         Ok([name |-> PyStr(track.name),
             mute |-> NativeBool("B_MUTE != 0"),
             solo |-> NativeBool("I_SOLO != 0"),
             arm |-> NativeBool("I_RECARM != 0"),
             volume |-> FloatResult(track.D_VOL),
             pan |-> FloatResult(track.D_PAN),
             items |-> PyList(ItemList(track.items)),
             fx |-> PyList([i \in 1..Len(track.fx) |->
                              PyMap([index |-> PyInt(i - 1),
                                     name |-> PyStr(track.fx[i].name)])])],
            trs,
            t.calls \o <<"GetSetMediaTrackInfo_String(get)", "CountTrackMediaItems">>
              \o ItemListCalls(track.items, 1)
              \o <<"TrackFX_GetCount">> \o Repeat(<<"TrackFX_GetFXName">>, Len(track.fx))
              \o Repeat(<<"GetMediaTrackInfo_Value">>, 5))

\* ---------------------------------------------------- Track Management
\* InsertTrackAtIndex is REAPER's: it clamps the index to 0..count.  GetTrack
\* yields no track for an index outside the project, and the name read from
\* no track is empty.
InsertTrackAtIndex(trs, index) == InsertAt(trs, Clamp(0, Len(trs), index), NewTrack)
TrackNameAt(trs, index) ==
    IF index >= 0 /\ index < Len(trs) THEN trs[index + 1].name ELSE ""

_create_track(a, trs) ==
    LET count == Len(trs)
        index == IF a.index = -1 THEN count ELSE a.index
        after == InsertTrackAtIndex(trs, index)
    IN Ok([index |-> PyInt(index), name |-> PyStr(TrackNameAt(after, index))],
          after,
          <<"CountTracks", "InsertTrackAtIndex", "GetTrack",
            "GetSetMediaTrackInfo_String(get)">>)

_delete_track(a, trs) ==
    LET t == _get_track(trs, a.track_index) IN
    IF t.exc # NoExc THEN Raise(t.exc, trs, t.calls)
    ELSE Ok([deleted |-> PyBool(TRUE)], RemoveAt(trs, a.track_index),
            t.calls \o <<"DeleteTrack">>)

\* for i in range(count - 1, -1, -1): GetTrack(0, i); DeleteTrack(track)
RECURSIVE DeleteTracksFrom(_, _)
DeleteTracksFrom(trs, i) ==
    IF i < 0 THEN trs
    ELSE DeleteTracksFrom(IF i < Len(trs) THEN RemoveAt(trs, i) ELSE trs, i - 1)

\* One pass of the loop's body: the index fetched, the track count at that
\* time, the track GetTrack returned (none when the index is past the end) and
\* the tracks after DeleteTrack.
DeleteStep(trs, i) ==
    [index |-> i, count |-> Len(trs),
     track |-> IF i < Len(trs) THEN <<trs[i + 1]>> ELSE <<>>,
     after |-> IF i < Len(trs) THEN RemoveAt(trs, i) ELSE trs]

\* The passes of a loop that runs i = 0, 1, ..., last.
RECURSIVE DeleteStepsUp(_, _, _)
DeleteStepsUp(trs, i, last_index) ==
    IF i > last_index THEN <<>>
    ELSE <<DeleteStep(trs, i)>> \o DeleteStepsUp(DeleteStep(trs, i).after, i + 1, last_index)
DeleteStepsAscending(trs, i) == DeleteStepsUp(trs, 0, i)

\* The passes of the loop for i in range(count - 1, -1, -1), from index i on.
RECURSIVE DeleteSteps(_, _)
DeleteSteps(trs, i) ==
    IF i < 0 THEN <<>>
    ELSE <<DeleteStep(trs, i)>> \o DeleteSteps(DeleteStep(trs, i).after, i - 1)

\* A loop that deletes index 0, 1, ... of the shrinking project.
RECURSIVE DeleteTracksUpFrom(_, _, _)
DeleteTracksUpFrom(trs, i, count) ==
    IF i >= count THEN trs
    ELSE DeleteTracksUpFrom(IF i < Len(trs) THEN RemoveAt(trs, i) ELSE trs, i + 1, count)
_delete_all_tracks_ascending(trs) ==
    LET count == Len(trs) IN
    Ok([deleted |-> PyInt(count), remaining_tracks |-> PyInt(0)],
       DeleteTracksUpFrom(trs, 0, count),
       <<"CountTracks">> \o Repeat(<<"GetTrack", "DeleteTrack">>, count))

_delete_all_tracks(trs) ==
    LET count == Len(trs) IN
    Ok([deleted |-> PyInt(count), remaining_tracks |-> PyInt(0)],
       DeleteTracksFrom(trs, count - 1),
       <<"CountTracks">> \o Repeat(<<"GetTrack", "DeleteTrack">>, count))

_set_track_name(a, trs) ==
    LET t == _get_track(trs, a.track_index) IN
    IF t.exc # NoExc THEN Raise(t.exc, trs, t.calls)
    ELSE Ok([name |-> PyStr(a.name)],
            [trs EXCEPT ![a.track_index + 1].name = a.name],
            t.calls \o <<"GetSetMediaTrackInfo_String(set)">>)

\* set mute / solo: the track's B_MUTE and I_SOLO are native values outside
\* the project state kept here.
SetTrackValue(a, trs, key, reading) ==
    LET t == _get_track(trs, a.track_index) IN
    IF t.exc # NoExc THEN Raise(t.exc, trs, t.calls)
    ELSE Ok((key :> reading), trs,
            t.calls \o <<"SetMediaTrackInfo_Value", "GetMediaTrackInfo_Value">>)

\* set volume / pan: float(value) clamped into lo..hi is written to the
\* track's value, which is then read back.
SetTrackFloat(a, trs, key, info, value, lo, hi) ==
    LET t == _get_track(trs, a.track_index)
        f == PyFloatOf(value)
    IN IF t.exc # NoExc THEN Raise(t.exc, trs, t.calls)
       ELSE IF f.exc # NoExc THEN Raise(f.exc, trs, t.calls)
       ELSE LET written == PyMax(lo, PyMin(hi, f.x))
                after == [trs EXCEPT ![a.track_index + 1][info] = written]
            IN Ok((key :> FloatResult(after[a.track_index + 1][info])), after,
                  t.calls \o <<"SetMediaTrackInfo_Value", "GetMediaTrackInfo_Value">>)

_set_track_volume(a, trs) ==
    SetTrackFloat(a, trs, "volume", "D_VOL", a.volume, Whole(0), Whole(4))
_set_track_pan(a, trs) ==
    SetTrackFloat(a, trs, "pan", "D_PAN", a.pan, Whole(-1), Whole(1))
_set_track_mute(a, trs) == SetTrackValue(a, trs, "mute", NativeBool("B_MUTE != 0"))
_set_track_solo(a, trs) == SetTrackValue(a, trs, "solo", NativeBool("I_SOLO != 0"))

\* ---------------------------------------------------------- Media Items
_get_items(a, trs) ==
    LET t == _get_track(trs, a.track_index) IN
    IF t.exc # NoExc THEN Raise(t.exc, trs, t.calls)
    ELSE LET items == trs[a.track_index + 1].items IN
         Ok([items |-> PyList(ItemList(items))], trs,
            t.calls \o <<"CountTrackMediaItems">> \o ItemListCalls(items, 1))

\* CreateNewMIDIItemInProj adds an item with a MIDI take to the track.  Item
\* positions are native values outside the project state kept here; the new
\* item is kept last.
_create_midi_item(a, trs) ==
    LET t == _get_track(trs, a.track_index) IN
    IF t.exc # NoExc THEN Raise(t.exc, trs, t.calls)
    ELSE Ok([track_index |-> PyInt(a.track_index),
             position |-> PyFloat(a.position),
             length |-> PyFloat(a.length)],
            [trs EXCEPT ![a.track_index + 1].items = Append(@, MidiItem)],
            t.calls \o <<"TimeMap2_QNToTime", "TimeMap2_QNToTime",
                         "CreateNewMIDIItemInProj">>)

_delete_item(a, trs) ==
    LET t == _get_track(trs, a.track_index) IN
    IF t.exc # NoExc THEN Raise(t.exc, trs, t.calls)
    ELSE LET i == _get_item(trs, a.track_index, a.item_index) IN
         IF i.exc # NoExc THEN Raise(i.exc, trs, t.calls \o i.calls)
         ELSE Ok([deleted |-> PyBool(TRUE)],
                 [trs EXCEPT ![a.track_index + 1].items = RemoveAt(@, a.item_index)],
                 t.calls \o i.calls \o <<"DeleteTrackMediaItem">>)


_set_item_name(a, trs) ==
    LET k == _get_active_take(trs, a.track_index, a.item_index) IN
    IF k.exc # NoExc THEN Raise(k.exc, trs, k.calls)
    ELSE Ok([name |-> PyStr(a.name)], trs,
            k.calls \o <<"GetSetMediaItemTakeInfo_String(set)">>)

\* ----------------------------------------------------------- MIDI Notes
\* Unit conversions through the native tempo map and the take's tick grid, at
\* 120 beats per minute and 960 ticks per quarter note: beats count halves,
\* project time counts eighths of a second, and the native divisions round
\* down.
TimeMap2_QNToTime(beats) == 2 * beats.h
TimeMap2_timeToQN(time_sec) == Finite(time_sec \div 2)
MIDI_GetPPQPosFromProjTime(proj_time) == 240 * proj_time
MIDI_GetProjTimeFromPPQPos(ppq) == ppq \div 240
_beats_to_time(beats) == TimeMap2_QNToTime(beats)
_time_to_beats(time_sec) == TimeMap2_timeToQN(time_sec)
_ppq_to_beats(ppq) == _time_to_beats(MIDI_GetProjTimeFromPPQPos(ppq))
_beats_to_ppq(beats) == MIDI_GetPPQPosFromProjTime(_beats_to_time(beats))
FloatAdd(x, y) == Finite(x.h + y.h)
FloatSub(x, y) == Finite(x.h - y.h)

\* The native steps of a copy and paste.  A native state here is the tracks,
\* the project's other state and the clipboard.
\* SelectAllMediaItems(0, False)
SelectAllMediaItems(st) == [st EXCEPT !.project.selected = {}]
\* SetMediaItemSelected(item, True)
SetMediaItemSelected(st, item) == [st EXCEPT !.project.selected = @ \cup {item}]
\* The selected items of track t (1-based), in the track's order.
SelectedOn(st, t) ==
    LET idx == {i \in DOMAIN st.tracks[t].items : <<t - 1, i - 1>> \in st.project.selected}
    IN [k \in 1..Cardinality(idx) |->
          st.tracks[t].items[CHOOSE i \in idx : Cardinality({j \in idx : j < i}) = k - 1]]
RECURSIVE SelectedFrom(_, _)
SelectedFrom(st, t) ==
    IF t > Len(st.tracks) THEN <<>> ELSE SelectedOn(st, t) \o SelectedFrom(st, t + 1)
\* Main_OnCommand(40698, 0), "Item: Copy items": the selected items go to the
\* clipboard.
CopyItems(st) == [st EXCEPT !.clipboard = SelectedFrom(st, 1)]
\* SetEditCurPos(time_sec, False, False)
SetEditCurPos(st, time_sec) == [st EXCEPT !.project.cursor = time_sec]
\* Main_OnCommand(42398, 0), "Item: Paste items/tracks": the clipboard's items
\* are added to the track, after its items, and are the selection.  The edit
\* cursor is taken to stay where it is.
PasteItems(st, t) ==
    LET had == Len(st.tracks[t].items) IN
    [st EXCEPT !.tracks[t].items = @ \o st.clipboard,
               !.project.selected =
                   {<<t - 1, had + k - 1>> : k \in DOMAIN st.clipboard}]

\* A copy and paste that does not clear the selection first.
DuplicateTraceKeepsSelection(st, item, dest_sec) ==
    LET s1 == st
        s2 == SetMediaItemSelected(s1, item)
        s3 == CopyItems(s2)
        s4 == SetEditCurPos(s3, dest_sec)
        s5 == PasteItems(s4, item[1] + 1)
        s6 == SelectAllMediaItems(s5)
    IN <<s1, s2, s3, s4, s5, s6>>

\* The native states after each of the six steps of duplicate_item.
DuplicateTrace(st, item, dest_sec) ==
    LET s1 == SelectAllMediaItems(st)
        s2 == SetMediaItemSelected(s1, item)
        s3 == CopyItems(s2)
        s4 == SetEditCurPos(s3, dest_sec)
        s5 == PasteItems(s4, item[1] + 1)
        s6 == SelectAllMediaItems(s5)
    IN <<s1, s2, s3, s4, s5, s6>>

DuplicateCalls ==
    <<"SelectAllMediaItems", "SetMediaItemSelected", "Main_OnCommand(40698)",
      "SetEditCurPos", "Main_OnCommand(42398)", "SelectAllMediaItems">>

\* duplicate_item: the item lookup and float(destination_time), then a copy
\* and paste through the native clipboard; the pasted copy lands on the source
\* item's track.
_duplicate_item(a, trs, prj) ==
    LET i == _get_item(trs, a.track_index, a.item_index)
        d == PyFloatOf(a.destination_time)
    IN IF i.exc # NoExc THEN Raise(i.exc, trs, i.calls)
       ELSE IF d.exc # NoExc THEN Raise(d.exc, trs, i.calls)
       ELSE \* the last of the six native states
            LET after == DuplicateTrace([tracks |-> trs, project |-> prj,
                                         clipboard |-> <<>>],
                                        <<a.track_index, a.item_index>>,
                                        _beats_to_time(d.x))[6]
            IN [project |-> after.project] @@
               Ok([duplicated |-> PyBool(TRUE),
                   destination_time |-> FloatResult(d.x)],
                  after.tracks,
                  i.calls \o <<"TimeMap2_QNToTime">> \o DuplicateCalls)

\* n.get(key, default)
DictGet(n, key, default) == IF key \in DOMAIN n THEN n[key] ELSE default

\* The native note MIDI_InsertNote is given for the note mapping n.
InsertedNote(n) ==
    LET pitch == DictGet(n, "pitch", 60)
        start_beats == PyFloatOf(DictGet(n, "start_time", FloatArg(Whole(0)))).x
        duration == PyFloatOf(DictGet(n, "duration", FloatArg(Finite(1)))).x
        velocity == DictGet(n, "velocity", 100)
        muted == DictGet(n, "mute", FALSE)
    IN [muted |-> muted, start_ppq |-> _beats_to_ppq(start_beats),
        end_ppq |-> _beats_to_ppq(FloatAdd(start_beats, duration)),
        pitch |-> pitch, vel |-> velocity]
\* float() refuses the note's start_time or duration.
NoteRefused(n) ==
    LET s == PyFloatOf(DictGet(n, "start_time", FloatArg(Whole(0))))
        d == PyFloatOf(DictGet(n, "duration", FloatArg(Finite(1))))
    IN IF s.exc.cls # "None" THEN s.exc ELSE d.exc

\* MIDI_Sort: the take's notes in order of their start positions, notes with
\* equal starts keeping their order.
RECURSIVE MIDI_Sort(_)
MIDI_Sort(notes) ==
    IF Len(notes) <= 1 THEN notes
    ELSE LET rest == MIDI_Sort(SubSeq(notes, 1, Len(notes) - 1))
             n == notes[Len(notes)]
             before == SelectSeq(rest, LAMBDA m : m.start_ppq <= n.start_ppq)
             after == SelectSeq(rest, LAMBDA m : m.start_ppq > n.start_ppq)
         IN before \o <<n>> \o after

\* The entry get_item_notes builds from one native note.
NoteEntry(note) ==
    LET start_beats == _ppq_to_beats(note.start_ppq)
        end_beats == _ppq_to_beats(note.end_ppq)
    IN PyMap([pitch |-> PyInt(note.pitch),
              start_time |-> FloatResult(start_beats),
              duration |-> FloatResult(FloatSub(end_beats, start_beats)),
              velocity |-> PyInt(note.vel),
              mute |-> PyBool(note.muted)])

_get_item_notes(a, trs) ==
    LET k == _get_active_take(trs, a.track_index, a.item_index) IN
    IF k.exc # NoExc THEN Raise(k.exc, trs, k.calls)
    ELSE LET item == trs[a.track_index + 1].items[a.item_index + 1] IN
         IF item.take # "midi"
         THEN Raise(ValueError("Item does not contain MIDI data"), trs,
                    k.calls \o <<"TakeIsMIDI">>)
         ELSE Ok([notes |-> PyList([i \in 1..Len(item.notes) |->
                                      NoteEntry(item.notes[i])])],
                 trs,
                 k.calls \o <<"TakeIsMIDI", "MIDI_CountEvts">>
                   \o Repeat(<<"MIDI_GetNote",
                               "MIDI_GetProjTimeFromPPQPos", "TimeMap2_timeToQN",
                               "MIDI_GetProjTimeFromPPQPos", "TimeMap2_timeToQN">>,
                             Len(item.notes)))

\* A replace that deletes nothing.
KeptNotesAll(existing, append) == existing
\* MIDI_DeleteNote(take, i): the take's notes without the one at index i; an
\* index the take does not have deletes nothing.
MIDI_DeleteNote(notes, i) ==
    IF i \in 0..(Len(notes) - 1)
    THEN SubSeq(notes, 1, i) \o SubSeq(notes, i + 2, Len(notes))
    ELSE notes
\* A deletion loop that counts up from 0 to last_index.
RECURSIVE DeleteNotesUp(_, _, _)
DeleteNotesUp(notes, i, last_index) ==
    IF i > last_index THEN notes
    ELSE DeleteNotesUp(MIDI_DeleteNote(notes, i), i + 1, last_index)
DeleteNotesAscending(notes, i) == DeleteNotesUp(notes, 0, i)
\* for i in range(note_count - 1, -1, -1): MIDI_DeleteNote(take, i), from
\* index i on.
RECURSIVE DeleteNotesFrom(_, _)
DeleteNotesFrom(notes, i) ==
    IF i < 0 THEN notes ELSE DeleteNotesFrom(MIDI_DeleteNote(notes, i), i - 1)
\* The notes left in the take before the insertions: all of them with append,
\* none without (every index from note_count - 1 down to 0 is deleted).
KeptNotes(existing, append) ==
    IF append THEN existing ELSE DeleteNotesFrom(existing, Len(existing) - 1)

\* The first note of the list that float() refuses (0: none).
FirstRefused(notes) ==
    IF \E i \in DOMAIN notes : NoteRefused(notes[i]).cls # "None"
    THEN CHOOSE i \in DOMAIN notes :
           /\ NoteRefused(notes[i]).cls # "None"
           /\ \A j \in 1..(i - 1) : NoteRefused(notes[j]).cls = "None"
    ELSE 0

_set_item_notes(a, trs) ==
    LET k == _get_active_take(trs, a.track_index, a.item_index) IN
    IF k.exc # NoExc THEN Raise(k.exc, trs, k.calls)
    ELSE LET item == trs[a.track_index + 1].items[a.item_index + 1] IN
         IF item.take # "midi"
         THEN Raise(ValueError("Item does not contain MIDI data"), trs,
                    k.calls \o <<"TakeIsMIDI">>)
         ELSE LET kept == KeptNotes(item.notes, a.append)
                  bad == FirstRefused(a.notes)
                  done == IF bad = 0 THEN Len(a.notes) ELSE bad - 1
                  inserted == [i \in 1..done |-> InsertedNote(a.notes[i])]
                  deletes == (IF a.append THEN <<>>
                              ELSE <<"MIDI_CountEvts">>
                                   \o Repeat(<<"MIDI_DeleteNote">>, Len(item.notes)))
                  inserts == Repeat(<<"TimeMap2_QNToTime", "MIDI_GetPPQPosFromProjTime",
                                      "TimeMap2_QNToTime", "MIDI_GetPPQPosFromProjTime",
                                      "MIDI_InsertNote">>, done)
              IN IF bad # 0
                 THEN Raise(NoteRefused(a.notes[bad]),
                            [trs EXCEPT ![a.track_index + 1].items[a.item_index + 1]
                                            .notes = kept \o inserted],
                            k.calls \o <<"TakeIsMIDI">> \o deletes \o inserts)
                 ELSE Ok([notes_set |-> PyInt(Len(a.notes))],
                         [trs EXCEPT ![a.track_index + 1].items[a.item_index + 1]
                                         .notes = MIDI_Sort(kept \o inserted)],
                         k.calls \o <<"TakeIsMIDI">> \o deletes \o inserts
                           \o <<"MIDI_Sort">>)

\* ------------------------------------------------------------ Transport
\* OnPlayButton starts the transport playing, OnStopButton stops it.
_start_playback(trs, prj) ==
    [project |-> [prj EXCEPT !.play_state = 1]] @@
    Ok([playing |-> PyBool(TRUE)], trs, <<"OnPlayButton">>)
_stop_playback(trs, prj) ==
    [project |-> [prj EXCEPT !.play_state = 0]] @@
    Ok([playing |-> PyBool(FALSE)], trs, <<"OnStopButton">>)

\* set_tempo: float(tempo) clamped into 1..960 is written as the project's
\* tempo, which is then read back.
_set_tempo(a, trs, prj) ==
    LET f == PyFloatOf(a.tempo) IN
    IF f.exc # NoExc THEN Raise(f.exc, trs, <<>>)
    ELSE LET tempo == PyMax(Whole(1), PyMin(Whole(960), f.x))
             after == [prj EXCEPT !.tempo = tempo]
         IN [project |-> after] @@
            Ok([tempo |-> FloatResult(after.tempo)], trs,
               <<"SetCurrentBPM", "Master_GetTempo">>)

_set_time_signature(a, trs, prj) ==
    [project |-> [prj EXCEPT !.signature = [numerator |-> a.numerator,
                                            denominator |-> a.denominator]]] @@
    Ok([signature_numerator |-> PyInt(a.numerator),
        signature_denominator |-> PyInt(a.denominator)], trs,
       <<"Master_GetTempo", "SetTempoTimeSigMarker", "UpdateTimeline">>)

\* The native undo history is outside the project state kept here.
_undo(trs) == Ok([undone |-> PyBool(TRUE)], trs, <<"Undo_DoUndo2">>)

_set_cursor_position(a, trs) ==
    Ok([cursor_position |-> NativeFloat("timeToQN(GetCursorPosition)")], trs,
       <<"TimeMap2_QNToTime", "SetEditCurPos", "GetCursorPosition",
         "TimeMap2_timeToQN">>)

_get_loop_region(trs) ==
    Ok([loop_start |-> NativeFloat("timeToQN(loop start)"),
        loop_length |-> NativeFloat("timeToQN(loop end) - timeToQN(loop start)")],
       trs,
       <<"GetSet_LoopTimeRange(get)", "TimeMap2_timeToQN", "TimeMap2_timeToQN">>)

_set_loop_region(a, trs) ==
    Ok([loop_start |-> PyFloat(a.start), loop_length |-> PyFloat(a.length)], trs,
       <<"TimeMap2_QNToTime", "TimeMap2_QNToTime", "GetSet_LoopTimeRange(set)">>)

\* ------------------------------------------------------------------- FX
\* TrackFX_AddByName(track, fx_name, False, -1) is REAPER's: a new instance at
\* the end of the chain and its index, or -1 when the host resolves no plugin
\* of that name.
\* add_fx without the test of the index TrackFX_AddByName returned.
_add_fx_unchecked(a, trs) ==
    LET t == _get_track(trs, a.track_index) IN
    IF t.exc # NoExc THEN Raise(t.exc, trs, t.calls)
    ELSE LET chain == trs[a.track_index + 1].fx
             found == a.fx_name \in InstalledFx
             after == IF found
                      THEN [trs EXCEPT ![a.track_index + 1].fx =
                                           Append(@, NewFx(a.fx_name))]
                      ELSE trs
         IN Ok([fx_index |-> PyInt(IF found THEN Len(chain) ELSE -1),
                name |-> PyStr(IF found
                               THEN after[a.track_index + 1].fx[Len(chain) + 1].name
                               ELSE "")],
               after, t.calls \o <<"TrackFX_AddByName", "TrackFX_GetFXName">>)

_add_fx(a, trs) ==
    LET t == _get_track(trs, a.track_index) IN
    IF t.exc # NoExc THEN Raise(t.exc, trs, t.calls)
    ELSE LET chain == trs[a.track_index + 1].fx
             fx_idx == IF a.fx_name \in InstalledFx THEN Len(chain) ELSE -1
         IN IF fx_idx < 0
            THEN Raise(ValueError("FX not found: " \o a.fx_name), trs,
                       t.calls \o <<"TrackFX_AddByName">>)
            ELSE LET after == [trs EXCEPT ![a.track_index + 1].fx =
                                              Append(@, NewFx(a.fx_name))]
                 IN Ok([fx_index |-> PyInt(fx_idx),
                        name |-> PyStr(after[a.track_index + 1].fx[fx_idx + 1].name)],
                       after,
                       t.calls \o <<"TrackFX_AddByName", "TrackFX_GetFXName">>)

\* The track lookup and the FX index check shared by remove_fx,
\* get_fx_parameters and set_fx_parameter.
FxLookup(trs, track_index, fx_index) ==
    LET t == _get_track(trs, track_index) IN
    IF t.exc # NoExc THEN t
    ELSE LET count == Len(trs[track_index + 1].fx) IN
         IF fx_index < 0 \/ fx_index >= count
         THEN [exc |-> ValueError(RangeMsg("FX", fx_index, count)),
               calls |-> t.calls \o <<"TrackFX_GetCount">>]
         ELSE [exc |-> NoExc, calls |-> t.calls \o <<"TrackFX_GetCount">>]

_remove_fx(a, trs) ==
    LET f == FxLookup(trs, a.track_index, a.fx_index) IN
    IF f.exc # NoExc THEN Raise(f.exc, trs, f.calls)
    ELSE Ok([removed |-> PyBool(TRUE)],
            [trs EXCEPT ![a.track_index + 1].fx = RemoveAt(@, a.fx_index)],
            f.calls \o <<"TrackFX_Delete">>)

_get_fx_parameters(a, trs) ==
    LET f == FxLookup(trs, a.track_index, a.fx_index) IN
    IF f.exc # NoExc THEN Raise(f.exc, trs, f.calls)
    ELSE LET fx == trs[a.track_index + 1].fx[a.fx_index + 1] IN
         Ok([fx_name |-> PyStr(fx.name),
             parameters |-> PyList([i \in 1..fx.nparams |->
                 PyMap([index |-> PyInt(i - 1),
                        name |-> NativeStr("TrackFX_GetParamName"),
                        value |-> FloatResult(fx.params[i].value),
                        min |-> FloatResult(fx.params[i].min),
                        max |-> FloatResult(fx.params[i].max)])])],
            trs,
            f.calls \o <<"TrackFX_GetFXName", "TrackFX_GetNumParams">>
              \o Repeat(<<"TrackFX_GetParamName", "TrackFX_GetParam">>, fx.nparams))

\* A write that leaves the value as given.
ClampParamUnclamped(min_val, max_val, x) == x
\* max(min_val, min(max_val, float(value)))
ClampParam(min_val, max_val, x) == PyMax(min_val, PyMin(max_val, x))

\* set_fx_parameter: the index checks, then the reported range is read, the
\* value clamped into it is written, and the clamped value is returned.
_set_fx_parameter(a, trs) ==
    LET f == FxLookup(trs, a.track_index, a.fx_index) IN
    IF f.exc # NoExc THEN Raise(f.exc, trs, f.calls)
    ELSE LET fx == trs[a.track_index + 1].fx[a.fx_index + 1]
             num_params == fx.nparams
         IN
         IF a.param_index < 0 \/ a.param_index >= num_params
         THEN Raise(ValueError(RangeMsg("Parameter", a.param_index, num_params)),
                    trs, f.calls \o <<"TrackFX_GetNumParams">>)
         ELSE LET p == fx.params[a.param_index + 1]
                  v == PyFloatOf(a.value)
              IN
              IF v.exc # NoExc
              THEN Raise(v.exc, trs,
                         f.calls \o <<"TrackFX_GetNumParams", "TrackFX_GetParam">>)
              ELSE LET clamped == ClampParam(p.min, p.max, v.x) IN
                   Ok([name |-> NativeStr("TrackFX_GetParamName"),
                       value |-> FloatResult(clamped)],
                      [trs EXCEPT ![a.track_index + 1].fx[a.fx_index + 1]
                                      .params[a.param_index + 1].value = clamped],
                      f.calls \o <<"TrackFX_GetNumParams", "TrackFX_GetParam",
                                   "TrackFX_SetParam", "TrackFX_GetParamName">>)

\* A create_track_with_fx that takes the new track back when the FX is not
\* found.
_create_track_with_fx_atomic(a, trs) ==
    LET count == Len(trs)
        index == IF a.index = -1 THEN count ELSE a.index
        inserted == InsertTrackAtIndex(trs, index)
        found == index >= 0 /\ index < Len(inserted)
        named == IF a.name # "" /\ found
                 THEN [inserted EXCEPT ![index + 1].name = a.name]
                 ELSE inserted
        head == <<"CountTracks", "InsertTrackAtIndex", "GetTrack">>
                  \o (IF a.name # "" THEN <<"GetSetMediaTrackInfo_String(set)">>
                      ELSE <<>>)
                  \o <<"TrackFX_AddByName">>
        fx_idx == IF found /\ a.fx_name \in InstalledFx
                  THEN Len(named[index + 1].fx) ELSE -1
    IN IF fx_idx < 0
       THEN Raise(ValueError("FX not found: " \o a.fx_name), trs, head)
       ELSE LET after == [named EXCEPT ![index + 1].fx = Append(@, NewFx(a.fx_name))]
            IN Ok([track_index |-> PyInt(index),
                   name |-> PyStr(after[index + 1].name),
                   fx_name |-> PyStr(after[index + 1].fx[fx_idx + 1].name)],
                  after,
                  head \o <<"TrackFX_GetFXName", "GetSetMediaTrackInfo_String(get)">>)

\* name defaults to None; None and "" are both false in `if name:`, its only
\* use, and are both modelled as "".
_create_track_with_fx(a, trs) ==
    LET count == Len(trs)
        index == IF a.index = -1 THEN count ELSE a.index
        inserted == InsertTrackAtIndex(trs, index)
        found == index >= 0 /\ index < Len(inserted)
        named == IF a.name # "" /\ found
                 THEN [inserted EXCEPT ![index + 1].name = a.name]
                 ELSE inserted
        head == <<"CountTracks", "InsertTrackAtIndex", "GetTrack">>
                  \o (IF a.name # "" THEN <<"GetSetMediaTrackInfo_String(set)">>
                      ELSE <<>>)
                  \o <<"TrackFX_AddByName">>
        fx_idx == IF found /\ a.fx_name \in InstalledFx
                  THEN Len(named[index + 1].fx) ELSE -1
    IN IF fx_idx < 0
       THEN Raise(ValueError("FX not found: " \o a.fx_name), named, head)
       ELSE LET after == [named EXCEPT ![index + 1].fx = Append(@, NewFx(a.fx_name))]
            IN Ok([track_index |-> PyInt(index),
                   name |-> PyStr(after[index + 1].name),
                   fx_name |-> PyStr(after[index + 1].fx[fx_idx + 1].name)],
                  after,
                  head \o <<"TrackFX_GetFXName", "GetSetMediaTrackInfo_String(get)">>)

\* ---------------------------------------------------- Markers / Regions
\* Project markers are native values outside the project state kept here.
\* A native marker entry, as EnumProjectMarkers yields it: the region flag, the
\* position and region end in project time, the name and the index number.
MarkerEntry(is_rgn, pos_sec, rgn_end_sec, name, idx) ==
    [is_rgn |-> is_rgn, pos_sec |-> pos_sec, rgn_end_sec |-> rgn_end_sec,
     name |-> name, idx |-> idx]
\* AddProjectMarker(0, isrgn, pos, rgnend, name, -1) is REAPER's: the entry
\* gets the next index number of its kind and is enumerated by position.
NextMarkerIdx(entries, is_rgn) ==
    Len(SelectSeq(entries, LAMBDA e : e.is_rgn = is_rgn)) + 1
AddProjectMarker(entries, is_rgn, pos_sec, rgn_end_sec, name) ==
    LET e == MarkerEntry(is_rgn, pos_sec, rgn_end_sec, name,
                         NextMarkerIdx(entries, is_rgn))
    IN SelectSeq(entries, LAMBDA x : x.pos_sec <= pos_sec) \o <<e>>
         \o SelectSeq(entries, LAMBDA x : x.pos_sec > pos_sec)

_add_marker(a, trs, prj) ==
    LET position == PyFloatOf(a.position) IN
    IF position.exc # NoExc THEN Raise(position.exc, trs, <<>>)
    ELSE [project |-> [prj EXCEPT !.markers =
                         AddProjectMarker(@, FALSE, _beats_to_time(position.x), 0, a.name)]]
         @@ Ok([marker_index |-> PyInt(NextMarkerIdx(prj.markers, FALSE)),
                position |-> FloatResult(position.x), name |-> PyStr(a.name)], trs,
               <<"TimeMap2_QNToTime", "AddProjectMarker">>)

_add_region(a, trs, prj) ==
    LET start == PyFloatOf(a.start)
        end == PyFloatOf(a.end)
    IN IF start.exc # NoExc THEN Raise(start.exc, trs, <<>>)
       ELSE IF end.exc # NoExc THEN Raise(end.exc, trs, <<"TimeMap2_QNToTime">>)
       ELSE [project |-> [prj EXCEPT !.markers =
                            AddProjectMarker(@, TRUE, _beats_to_time(start.x),
                                             _beats_to_time(end.x), a.name)]]
            @@ Ok([region_index |-> PyInt(NextMarkerIdx(prj.markers, TRUE)),
                   start |-> FloatResult(start.x), end |-> FloatResult(end.x),
                   name |-> PyStr(a.name)],
                  trs, <<"TimeMap2_QNToTime", "TimeMap2_QNToTime", "AddProjectMarker">>)

\* RPR.CountProjectMarkers(0, 0, 0): the numbers of markers and of regions.
CountProjectMarkers(entries) ==
    [num_markers |-> Len(SelectSeq(entries, LAMBDA e : ~e.is_rgn)),
     num_regions |-> Len(SelectSeq(entries, LAMBDA e : e.is_rgn))]

\* The loop of get_markers over EnumProjectMarkers(i), i = from .. total - 1.
RECURSIVE EnumLoop(_, _, _, _, _)
EnumLoop(entries, i, total, markers, regions) ==
    IF i >= total THEN [markers |-> markers, regions |-> regions]
    ELSE LET e == entries[i + 1] IN
         IF e.is_rgn
         THEN EnumLoop(entries, i + 1, total, markers,
                       Append(regions,
                              PyMap([index |-> PyInt(e.idx), name |-> PyStr(e.name),
                                     start |-> FloatResult(_time_to_beats(e.pos_sec)),
                                     end |-> FloatResult(_time_to_beats(e.rgn_end_sec))])))
         ELSE EnumLoop(entries, i + 1, total,
                       Append(markers,
                              PyMap([index |-> PyInt(e.idx), name |-> PyStr(e.name),
                                     position |-> FloatResult(_time_to_beats(e.pos_sec))])),
                       regions)

\* A loop bound that counts the markers alone.
MarkerTotalWithoutRegions(count) == count.num_markers
\* total = num_markers + num_regions
MarkerTotal(count) == count.num_markers + count.num_regions

_get_markers(trs, prj) ==
    LET total == MarkerTotal(CountProjectMarkers(prj.markers))
        out == EnumLoop(prj.markers, 0, total, <<>>, <<>>)
    IN Ok([markers |-> PyList(out.markers), regions |-> PyList(out.regions)], trs,
          <<"CountProjectMarkers">>
            \o [k \in 1..total |->
                  IF prj.markers[k].is_rgn THEN "EnumProjectMarkers(region)"
                  ELSE "EnumProjectMarkers(marker)"])

\* -------------------------------------------------------- command table
\* self._commands, built in __init__.
CommandNames ==
    {"get_project_info", "get_track_info", "create_track", "delete_track",
     "delete_all_tracks", "set_track_name", "set_track_volume", "set_track_pan",
     "set_track_mute", "set_track_solo", "get_items", "create_midi_item",
     "delete_item", "duplicate_item", "set_item_name", "get_item_notes",
     "set_item_notes", "start_playback", "stop_playback", "set_tempo",
     "set_time_signature", "undo", "set_cursor_position", "get_loop_region",
     "set_loop_region", "add_fx", "remove_fx", "get_fx_parameters",
     "set_fx_parameter", "create_track_with_fx", "add_marker", "add_region",
     "get_markers"}

\* The handlers' signatures: the parameters without a default ...
Required(cmd) ==
    CASE cmd \in {"get_track_info", "delete_track", "get_items"} -> {"track_index"}
      [] cmd = "set_track_name" -> {"track_index", "name"}
      [] cmd = "set_track_volume" -> {"track_index", "volume"}
      [] cmd = "set_track_pan" -> {"track_index", "pan"}
      [] cmd = "set_track_mute" -> {"track_index", "mute"}
      [] cmd = "set_track_solo" -> {"track_index", "solo"}
      [] cmd = "create_midi_item" -> {"track_index", "position"}
      [] cmd \in {"delete_item", "get_item_notes"} -> {"track_index", "item_index"}
      [] cmd = "duplicate_item" -> {"track_index", "item_index", "destination_time"}
      [] cmd = "set_item_name" -> {"track_index", "item_index", "name"}
      [] cmd = "set_item_notes" -> {"track_index", "item_index", "notes"}
      [] cmd = "set_tempo" -> {"tempo"}
      [] cmd = "set_time_signature" -> {"numerator", "denominator"}
      [] cmd = "set_cursor_position" -> {"time"}
      [] cmd = "set_loop_region" -> {"start", "length"}
      [] cmd = "add_fx" -> {"track_index", "fx_name"}
      [] cmd \in {"remove_fx", "get_fx_parameters"} -> {"track_index", "fx_index"}
      [] cmd = "set_fx_parameter" -> {"track_index", "fx_index", "param_index", "value"}
      [] cmd = "create_track_with_fx" -> {"fx_name"}
      [] cmd = "add_marker" -> {"position"}
      [] cmd = "add_region" -> {"start", "end"}
      [] OTHER -> {}

\* ... and the defaults of the others.
Defaults(cmd) ==
    CASE cmd = "create_track" -> [index |-> -1]
      [] cmd = "create_midi_item" -> [length |-> 4]
      [] cmd = "set_item_notes" -> [append |-> FALSE]
      [] cmd = "create_track_with_fx" -> [index |-> -1, name |-> ""]
      [] cmd \in {"add_marker", "add_region"} -> [name |-> ""]
      [] OTHER -> <<>>

\* handler(**kwargs): Python binds the keyword arguments to the signature and
\* raises TypeError, before the body runs, for a name the signature lacks or a
\* parameter left without a value.
Bind(cmd, kw) ==
    LET known == Required(cmd) \cup DOMAIN Defaults(cmd)
        missing == Required(cmd) \ DOMAIN kw
    IN IF DOMAIN kw \ known # {}
       THEN [exc |-> TypeError("ReapyClient._" \o cmd
                               \o "() got an unexpected keyword argument"),
             args |-> <<>>]
       ELSE IF missing # {}
       THEN [exc |-> TypeError("ReapyClient._" \o cmd \o "() missing "
                               \o ToString(Cardinality(missing))
                               \o " required positional argument(s)"),
             args |-> <<>>]
       ELSE [exc |-> NoExc,
             args |-> [k \in known |-> IF k \in DOMAIN kw THEN kw[k]
                                       ELSE Defaults(cmd)[k]]]

\* The body of the handler registered under cmd.
Handler(cmd, a, trs, prj) ==
    CASE cmd = "get_project_info" -> _get_project_info(trs, prj)
      [] cmd = "get_track_info" -> _get_track_info(a, trs)
      [] cmd = "create_track" -> _create_track(a, trs)
      [] cmd = "delete_track" -> _delete_track(a, trs)
      [] cmd = "delete_all_tracks" -> _delete_all_tracks(trs)
      [] cmd = "set_track_name" -> _set_track_name(a, trs)
      [] cmd = "set_track_volume" -> _set_track_volume(a, trs)
      [] cmd = "set_track_pan" -> _set_track_pan(a, trs)
      [] cmd = "set_track_mute" -> _set_track_mute(a, trs)
      [] cmd = "set_track_solo" -> _set_track_solo(a, trs)
      [] cmd = "get_items" -> _get_items(a, trs)
      [] cmd = "create_midi_item" -> _create_midi_item(a, trs)
      [] cmd = "delete_item" -> _delete_item(a, trs)
      [] cmd = "duplicate_item" -> _duplicate_item(a, trs, prj)
      [] cmd = "set_item_name" -> _set_item_name(a, trs)
      [] cmd = "get_item_notes" -> _get_item_notes(a, trs)
      [] cmd = "set_item_notes" -> _set_item_notes(a, trs)
      [] cmd = "start_playback" -> _start_playback(trs, prj)
      [] cmd = "stop_playback" -> _stop_playback(trs, prj)
      [] cmd = "set_tempo" -> _set_tempo(a, trs, prj)
      [] cmd = "set_time_signature" -> _set_time_signature(a, trs, prj)
      [] cmd = "undo" -> _undo(trs)
      [] cmd = "set_cursor_position" -> _set_cursor_position(a, trs)
      [] cmd = "get_loop_region" -> _get_loop_region(trs)
      [] cmd = "set_loop_region" -> _set_loop_region(a, trs)
      [] cmd = "add_fx" -> _add_fx(a, trs)
      [] cmd = "remove_fx" -> _remove_fx(a, trs)
      [] cmd = "get_fx_parameters" -> _get_fx_parameters(a, trs)
      [] cmd = "set_fx_parameter" -> _set_fx_parameter(a, trs)
      [] cmd = "create_track_with_fx" -> _create_track_with_fx(a, trs)
      [] cmd = "add_marker" -> _add_marker(a, trs, prj)
      [] cmd = "add_region" -> _add_region(a, trs, prj)
      [] cmd = "get_markers" -> _get_markers(trs, prj)

\* --------------------------------------------------------- ReapyClient
VARIABLES
    api_module,          \* self._api_module: "None" or "reapy.reascript_api"
    auto_configured,     \* self._auto_configured
    tracks,              \* the native project's tracks
    project,             \* the native project's other state
    api_initializations, \* times _api set self._api_module so far
    configure_attempts,  \* _try_auto_configure() invocations so far
    configure_calls,     \* reapy.configure_reaper() invocations so far
    client,              \* the ReaperClient the injector provides to the facade
    _responses,          \* FakeReaperClient._responses
    commands_sent,       \* FakeReaperClient.commands_sent
    last                 \* what the latest call did

vars == <<api_module, auto_configured, tracks, project, api_initializations,
          configure_attempts, configure_calls, client, _responses, commands_sent, last>>

\* The _api property: import reapy.reascript_api on first use.
_api(module, import_raises) ==
    IF module = "None"
    THEN IF import_raises
         THEN [ok |-> FALSE, api_module |-> "None", initializations |-> 0]
         ELSE [ok |-> TRUE, api_module |-> "reapy.reascript_api", initializations |-> 1]
    ELSE [ok |-> TRUE, api_module |-> module, initializations |-> 0]

\* What a handler raises before its first use of self._api: add_marker and
\* add_region convert their first argument before _beats_to_time reads the
\* handle; every other handler starts with a use of it.
RaisedBeforeApi(cmd, a) ==
    CASE cmd = "add_marker" -> PyFloatOf(a.position).exc
      [] cmd = "add_region" -> PyFloatOf(a.start).exc
      [] OTHER -> NoExc

\* params or {}
OrEmptyKeepsNone(params) == params
OrEmptyDropsEntries(params) == EmptyDict
OrEmpty(params) ==
    IF params.isNone \/ DOMAIN params.map = {} THEN EmptyDict ELSE params

\* handler(**kwargs) under what the native layer does in this call: env.fault
\* is the exception the native layer raises at the handler's first use of it
\* (NoExc: none), on the import of the module when env.at_import.  Every
\* handler body starts with a use of self._api.
CallHandler(cmd, kwargs, self, env) ==
    LET b == IF kwargs.isNone
             THEN [exc |-> TypeError("ReapyClient._" \o cmd \o "() argument after "
                                     \o "** must be a mapping, not NoneType"),
                   args |-> <<>>]
             ELSE Bind(cmd, kwargs.map)
        m == _api(self.api_module, env.fault # NoExc /\ env.at_import)
    IN IF b.exc # NoExc
       THEN Raise(b.exc, self.tracks, <<>>)
            @@ [api_module |-> self.api_module, initializations |-> 0,
                project |-> self.project]
       ELSE IF RaisedBeforeApi(cmd, b.args) # NoExc
       THEN Raise(RaisedBeforeApi(cmd, b.args), self.tracks, <<>>)
            @@ [api_module |-> self.api_module, initializations |-> 0,
                project |-> self.project]
       ELSE IF env.fault # NoExc
       THEN Raise(env.fault, self.tracks, <<>>)
            @@ [api_module |-> m.api_module, initializations |-> m.initializations,
                project |-> self.project]
       ELSE Handler(cmd, b.args, self.tracks, self.project)
            @@ [api_module |-> m.api_module, initializations |-> m.initializations,
                project |-> self.project]

_is_connection_error_exact(exc) ==
    exc.cls \in {"OSError", "DisabledDistAPIError", "DisconnectedClientError"}
_is_connection_error(exc) ==
    IF IsInstance(exc.cls, "OSError") THEN TRUE
    ELSE exc.cls \in {"DisabledDistAPIError", "DisconnectedClientError"}

\* _try_auto_configure under the outcome of its try block: "ok",
\* "configure_raises" (reapy.configure_reaper() raised) or "import_raises"
\* (import reapy raised, so configure_reaper was not called).
_try_auto_configure_reports_success(configure) ==
    [auto_configured |-> TRUE,
     api_module |-> "None",
     configured |-> TRUE,
     configure_calls |-> IF configure = "import_raises" THEN 0 ELSE 1]
_try_auto_configure_unflagged(configure) ==
    [auto_configured |-> FALSE,
     api_module |-> "None",
     configured |-> configure = "ok",
     configure_calls |-> IF configure = "import_raises" THEN 0 ELSE 1]
\* A reconfiguration attempt that leaves the handle in place.
_try_auto_configure_keeps_handle(configure) ==
    [auto_configured |-> TRUE,
     api_module |-> "reapy.reascript_api",
     configured |-> configure = "ok",
     configure_calls |-> IF configure = "import_raises" THEN 0 ELSE 1]
\* The statements of a reconfiguration attempt in the order they run, each
\* with the attributes written up to and including it: the two assignments,
\* import reapy, reapy.configure_reaper() unless the import raised, and the
\* return.
ConfigureSteps(configure, at_return) ==
    LET flagged == [auto_configured |-> TRUE]
        cleared == [auto_configured |-> TRUE, api_module |-> "None"]
    IN <<[step |-> "self._auto_configured = True", written |-> flagged],
         [step |-> "self._api_module = None", written |-> cleared],
         [step |-> "import reapy", written |-> cleared]>>
       \o (IF configure = "import_raises" THEN <<>>
           ELSE <<[step |-> "reapy.configure_reaper()", written |-> cleared]>>)
       \o <<[step |-> "return", written |-> at_return]>>
\* An attempt that takes the flag back when the configure step did not succeed.
AutoConfigureStepsUnflags(configure) ==
    ConfigureSteps(configure, [auto_configured |-> configure = "ok", api_module |-> "None"])
AutoConfigureSteps(configure) ==
    ConfigureSteps(configure, [auto_configured |-> TRUE, api_module |-> "None"])

_try_auto_configure(configure) ==
    LET steps == AutoConfigureSteps(configure)
        end == steps[Len(steps)].written
    IN [auto_configured |-> end.auto_configured,
        api_module |-> end.api_module,
        configured |-> configure = "ok",
        configure_calls |-> IF configure = "import_raises" THEN 0 ELSE 1]

\* if not self._auto_configured and self._is_connection_error(e)
ShouldAutoConfigureAgain(self, exc) == _is_connection_error(exc)
ShouldAutoConfigure(self, exc) ==
    ~self.auto_configured /\ _is_connection_error(exc)

\* raise RuntimeError(f"Unknown command: {command_type}")
UnknownCommandUnnamed(command_type) == RuntimeError("Unknown command")
UnknownCommand(command_type) == RuntimeError("Unknown command: " \o command_type)

\* The messages of the two failures after an attempt.  The dash between
\* "auto-configured" and "please" is U+2014 in the source; it is written
\* " - " here.
MsgAutoConfigured ==
    "Could not connect to REAPER. reapy has been auto-configured - please restart REAPER and try again."
MsgAutoConfigureFailed ==
    "Could not connect to REAPER and auto-configuration failed. Please run: python -c \"import reapy; reapy.configure_reaper()\" then restart REAPER."

\* What a send_command that did not reach a handler leaves in the trace.
NoHandler(self) ==
    [invoked |-> FALSE, invocations |-> 0, kwargs |-> PyNone, raised |-> NoExc,
     handler_result |-> <<>>,
     calls |-> <<>>, api_after_handler |-> self.api_module, initializations |-> 0]

\* A send_command that calls the handler a second time after a reconfiguration
\* attempt.
AfterHandlerRetries(self, env, kwargs, h) ==
    LET ran == [invoked |-> TRUE, invocations |-> 1, kwargs |-> kwargs, raised |-> h.exc,
                handler_result |-> h.result, calls |-> h.calls,
                api_after_handler |-> h.api_module,
                initializations |-> h.initializations, tracks |-> h.tracks,
                project |-> h.project]
        same == [api_module |-> h.api_module,
                 auto_configured |-> self.auto_configured,
                 attempts |-> 0, configure_calls |-> 0]
    IN IF h.exc = NoExc
       THEN ran @@ same @@ [kind |-> "return", error |-> NoExc, result |-> h.result]
       ELSE IF IsInstance(h.exc.cls, "RuntimeError")
       THEN ran @@ same @@ [kind |-> "raise", error |-> h.exc, result |-> <<>>]
       ELSE IF ShouldAutoConfigure(self, h.exc)
       THEN LET c == _try_auto_configure(env.configure) IN
            [invocations |-> 2] @@ ran @@
            [kind |-> "raise",
             error |-> RuntimeError(IF c.configured THEN MsgAutoConfigured
                                    ELSE MsgAutoConfigureFailed),
             result |-> <<>>, api_module |-> c.api_module,
             auto_configured |-> c.auto_configured,
             attempts |-> 1, configure_calls |-> c.configure_calls]
       ELSE ran @@ same @@
            [kind |-> "raise", error |-> RuntimeError(h.exc.msg), result |-> <<>>]

\* The try statement around the handler's call, given what the call did (h).
AfterHandler(self, env, kwargs, h) ==
    LET ran == [invoked |-> TRUE, invocations |-> 1, kwargs |-> kwargs, raised |-> h.exc,
                handler_result |-> h.result, calls |-> h.calls,
                api_after_handler |-> h.api_module,
                initializations |-> h.initializations, tracks |-> h.tracks,
                project |-> h.project]
        same == [api_module |-> h.api_module,
                 auto_configured |-> self.auto_configured,
                 attempts |-> 0, configure_calls |-> 0]
    IN IF h.exc = NoExc
       THEN ran @@ same @@ [kind |-> "return", error |-> NoExc, result |-> h.result]
       ELSE IF IsInstance(h.exc.cls, "RuntimeError")
       THEN ran @@ same @@ [kind |-> "raise", error |-> h.exc, result |-> <<>>]
       ELSE IF ShouldAutoConfigure(self, h.exc)
       THEN LET c == _try_auto_configure(env.configure) IN
            ran @@
            [kind |-> "raise",
             error |-> RuntimeError(IF c.configured THEN MsgAutoConfigured
                                    ELSE MsgAutoConfigureFailed),
             result |-> <<>>, api_module |-> c.api_module,
             auto_configured |-> c.auto_configured,
             attempts |-> 1, configure_calls |-> c.configure_calls]
       ELSE ran @@ same @@
            [kind |-> "raise", error |-> RuntimeError(h.exc.msg), result |-> <<>>]

\* send_command: the call's outcome (kind "return" with result, or "raise"
\* with error), the client and project it leaves, and what it did on the way.
send_command(command_type, params, self, env) ==
    IF command_type \notin CommandNames
    THEN NoHandler(self) @@
         [kind |-> "raise", error |-> UnknownCommand(command_type),
          result |-> <<>>, api_module |-> self.api_module,
          auto_configured |-> self.auto_configured, tracks |-> self.tracks,
          project |-> self.project, attempts |-> 0, configure_calls |-> 0]
    ELSE AfterHandler(self, env, OrEmpty(params),
                      CallHandler(command_type, OrEmpty(params), self, env))

Self == [api_module |-> api_module, auto_configured |-> auto_configured,
         tracks |-> tracks, project |-> project]

\* ---------------------------------------------------- FakeReaperClient
\* send_command of the in-memory fake: log the call, then the canned response.
FakeSendCommand(command_type, params, responses, sent) ==
    LET logged == Append(sent, <<command_type, OrEmpty(params)>>) IN
    IF command_type \notin DOMAIN responses
    THEN [kind |-> "raise",
          error |-> RuntimeError("No fake response configured for '"
                                 \o command_type \o "'"),
          result |-> <<>>, commands_sent |-> logged]
    ELSE [kind |-> "return", error |-> NoExc, result |-> responses[command_type],
          commands_sent |-> logged]

\* ---------------------------------------------------------- tool facade
\* json.dumps: the JSON value of a Python value, by its type.  bool becomes
\* true/false, int and float a number, str a string, list an array and dict an
\* object; any other type raises TypeError.
JsonScalar(v) ==
    CASE v.py = "bool" -> [json |-> IF v.v = "TRUE" THEN "true"
                                    ELSE IF v.v = "FALSE" THEN "false"
                                    ELSE "true|false", v |-> v.v]
      [] v.py \in {"int", "float"} -> [json |-> "number", v |-> v.v]
      [] v.py = "str" -> [json |-> "string", v |-> v.v]
      [] v.py = "list" -> [json |-> "array", v |-> v.v]

RECURSIVE Serializable(_)
Serializable(v) ==
    IF "items" \in DOMAIN v
    THEN /\ v.py \in {"list", "dict"}
         /\ \A k \in DOMAIN v.items : Serializable(v.items[k])
    ELSE v.py \in {"bool", "int", "float", "str", "list"}

RECURSIVE Json(_)
Json(v) ==
    IF "items" \in DOMAIN v
    THEN [json |-> IF v.py = "list" THEN "array" ELSE "object",
          members |-> [k \in DOMAIN v.items |-> Json(v.items[k])]]
    ELSE JsonScalar(v)

NoText == [json |-> "none"]
JsonDumps(mapping) ==
    IF Serializable(PyMap(mapping))
    THEN [exc |-> NoExc, text |-> Json(PyMap(mapping))]
    ELSE [exc |-> TypeError("Object of type bytes is not JSON serializable"),
          text |-> NoText]

\* An error payload that carries a second key.
ErrorPayloadWithType(e) ==
    JsonDumps([error |-> PyStr(e.msg), type |-> PyStr(e.cls)]).text

\* json.dumps({"error": str(e)})
ErrorPayload(e) == JsonDumps([error |-> PyStr(e.msg)]).text

\* _call, given how the client's send_command ended: the text it returns, or
\* the exception that leaves it.
_call(out) ==
    LET d == JsonDumps(out.result) IN
    IF out.kind = "return" /\ d.exc = NoExc
    THEN [kind |-> "return", text |-> d.text, error |-> NoExc]
    ELSE LET e == IF out.kind = "raise" THEN out.error ELSE d.exc IN
         IF IsInstance(e.cls, "RuntimeError")
         THEN [kind |-> "return", text |-> ErrorPayload(e), error |-> NoExc]
         ELSE [kind |-> "raise", text |-> NoText, error |-> e]

\* The tools that call _call with the command name alone.
NoParamTools ==
    {"get_project_info", "delete_all_tracks", "start_playback", "stop_playback",
     "undo", "get_loop_region", "get_markers"}

\* The defaults in the tools' signatures.
ToolDefaults(tool) ==
    CASE tool = "create_track" -> [index |-> -1]
      [] tool = "create_midi_item" -> [length |-> 4]
      [] tool = "set_item_notes" -> [append |-> FALSE]
      [] tool = "create_track_with_fx" -> [index |-> -1, name |-> ""]
      [] tool \in {"add_marker", "add_region"} -> [name |-> ""]
      [] OTHER -> <<>>

\* The command names the client's test expects to be registered.
EXPECTED_COMMANDS ==
    {"get_project_info",
     "get_track_info",
     "create_track",
     "delete_track",
     "delete_all_tracks",
     "set_track_name",
     "set_track_volume",
     "set_track_pan",
     "set_track_mute",
     "set_track_solo",
     "get_items",
     "create_midi_item",
     "delete_item",
     "duplicate_item",
     "set_item_name",
     "get_item_notes",
     "set_item_notes",
     "start_playback",
     "stop_playback",
     "set_tempo",
     "set_time_signature",
     "undo",
     "set_cursor_position",
     "get_loop_region",
     "set_loop_region",
     "add_fx",
     "remove_fx",
     "get_fx_parameters",
     "set_fx_parameter",
     "create_track_with_fx",
     "add_marker",
     "add_region",
     "get_markers"}

\* A declared tool: its name, and the command name its body hands to _call.
Tool(name, command) == [name |-> name, command |-> command]

\* The tools create_server declares, in the order of their declaration.
Tools ==
    <<Tool("get_project_info", "get_project_info"),
      Tool("get_track_info", "get_track_info"),
      Tool("create_track", "create_track"),
      Tool("delete_track", "delete_track"),
      Tool("delete_all_tracks", "delete_all_tracks"),
      Tool("set_track_name", "set_track_name"),
      Tool("set_track_volume", "set_track_volume"),
      Tool("set_track_pan", "set_track_pan"),
      Tool("set_track_mute", "set_track_mute"),
      Tool("set_track_solo", "set_track_solo"),
      Tool("get_items", "get_items"),
      Tool("create_midi_item", "create_midi_item"),
      Tool("delete_item", "delete_item"),
      Tool("duplicate_item", "duplicate_item"),
      Tool("set_item_name", "set_item_name"),
      Tool("get_item_notes", "get_item_notes"),
      Tool("set_item_notes", "set_item_notes"),
      Tool("start_playback", "start_playback"),
      Tool("stop_playback", "stop_playback"),
      Tool("set_tempo", "set_tempo"),
      Tool("set_time_signature", "set_time_signature"),
      Tool("undo", "undo"),
      Tool("set_cursor_position", "set_cursor_position"),
      Tool("get_loop_region", "get_loop_region"),
      Tool("set_loop_region", "set_loop_region"),
      Tool("add_fx", "add_fx"),
      Tool("remove_fx", "remove_fx"),
      Tool("get_fx_parameters", "get_fx_parameters"),
      Tool("set_fx_parameter", "set_fx_parameter"),
      Tool("create_track_with_fx", "create_track_with_fx"),
      Tool("add_marker", "add_marker"),
      Tool("add_region", "add_region"),
      Tool("get_markers", "get_markers")>>

ToolNames == {Tools[i].name : i \in DOMAIN Tools}

\* A facade whose get_markers tool forwards a name the client never registered.
ForwardedCommandRenamed(tool) ==
    IF tool = "get_markers" THEN "list_markers" ELSE tool

\* The command name the tool's body forwards.
ForwardedCommand(tool) ==
    Tools[CHOOSE i \in DOMAIN Tools : Tools[i].name = tool].command

\* A facade whose create_track_with_fx forwards name whatever it is.
ToolParamsAlwaysName(tool, args) ==
    IF tool \in NoParamTools THEN PyNone ELSE PyDict(args @@ ToolDefaults(tool))

\* The parameter mapping a tool builds from its arguments.
ToolParams(tool, args) ==
    LET given == args @@ ToolDefaults(tool) IN
    IF tool \in NoParamTools THEN PyNone
    ELSE IF tool = "create_track_with_fx"
    THEN IF given.name # ""
         THEN PyDict([fx_name |-> given.fx_name, index |-> given.index,
                      name |-> given.name])
         ELSE PyDict([fx_name |-> given.fx_name, index |-> given.index])
    ELSE PyDict(given)

\* ------------------------------------------------------------- inputs
\* The keyword arguments a command is called with, its index arguments drawn
\* from T (track), I (item), F (FX), P (parameter) and X (insertion index).
Note60 == [pitch |-> 60, start_time |-> IntArg(0), duration |-> IntArg(1)]
FxNames == {"ReaEQ", "NoSuchFx"}

Args(cmd, T, I, F, P, X) ==
    CASE cmd \in {"get_track_info", "delete_track", "get_items"} -> [track_index : T]
      [] cmd = "create_track" -> [index : X] \cup {<<>>}
      [] cmd = "set_track_name" -> [track_index : T, name : {"Lead"}]
      [] cmd = "set_track_volume" -> [track_index : T, volume : {IntArg(1)}]
      [] cmd = "set_track_pan" -> [track_index : T, pan : {IntArg(0)}]
      [] cmd = "set_track_mute" -> [track_index : T, mute : {TRUE}]
      [] cmd = "set_track_solo" -> [track_index : T, solo : {TRUE}]
      [] cmd = "create_midi_item" ->
            [track_index : T, position : {0}]
            \cup [track_index : T, position : {0}, length : {2}]
      [] cmd \in {"delete_item", "get_item_notes"} -> [track_index : T, item_index : I]
      [] cmd = "duplicate_item" ->
            [track_index : T, item_index : I, destination_time : {IntArg(0)}]
      [] cmd = "set_item_name" -> [track_index : T, item_index : I, name : {"Clip"}]
      [] cmd = "set_item_notes" ->
            [track_index : T, item_index : I, notes : {<<>>, <<Note60>>}]
            \cup [track_index : T, item_index : I, notes : {<<>>},
                  append : {TRUE}]
      [] cmd = "set_tempo" -> [tempo : {IntArg(120)}]
      [] cmd = "set_time_signature" -> [numerator : {4}, denominator : {4}]
      [] cmd = "set_cursor_position" -> [time : {4}]
      [] cmd = "set_loop_region" -> [start : {0}, length : {8}]
      [] cmd = "add_fx" -> [track_index : T, fx_name : FxNames]
      [] cmd \in {"remove_fx", "get_fx_parameters"} -> [track_index : T, fx_index : F]
      [] cmd = "set_fx_parameter" ->
            [track_index : T, fx_index : F, param_index : P, value : {IntArg(1)}]
      [] cmd = "create_track_with_fx" ->
            [fx_name : FxNames] \cup [fx_name : FxNames, index : X]
            \cup [fx_name : FxNames, index : X, name : {"Lead"}]
      [] cmd = "add_marker" -> [position : {IntArg(16)}, name : {"Chorus"}]
      [] cmd = "add_region" ->
            [start : {IntArg(0)}, end : {IntArg(32)}, name : {"Intro"}]
      [] OTHER -> {<<>>}

\* Exceptions the native layer raises, each with its str().
Faults ==
    {Exc("OSError", "Connection refused"),
     Exc("ConnectionRefusedError", "[Errno 111] Connection refused"),
     Exc("DisabledDistAPIError", "reapy dist API is disabled"),
     Exc("DisconnectedClientError", "Client disconnected"),
     Exc("RuntimeError", "original error"),
     Exc("NotImplementedError", "not implemented"),
     Exc("ValueError", "bad argument"),
     Exc("ImportError", "No module named 'reapy'")}

\* What the native layer does during one call: the exception it raises at the
\* handler's first use of it (NoExc: none), whether that is on the import of
\* the module (possible only while the handle is unset), and how the
\* configure step ends should the call reach it (import reapy can fail there
\* only if it failed in the handler).
NoFault == [fault |-> NoExc, at_import |-> FALSE, configure |-> "ok"]
Envs(module) ==
    {NoFault} \cup
    {e \in [fault : Faults, at_import : BOOLEAN,
            configure : {"ok", "configure_raises", "import_raises"}] :
        /\ e.at_import => module = "None"
        /\ (e.configure = "import_raises") => e.at_import}

\* Spec's inputs: every registered command with well-formed arguments, the
\* commands without parameters with None, some commands and an unregistered
\* name with None, {} and a stray keyword ...
Malformed == {PyNone, EmptyDict, PyDict([bogus |-> 1])}
WellFormed(c) == {PyDict(m) : m \in Args(c, {0}, {0}, {0}, {0}, {-1})}
MalformedCommands ==
    {"nonexistent_command", "get_project_info", "create_track", "set_tempo",
     "set_item_notes"}
\* (the two commands that add markers have their own specification, MarkerSpec).
MarkerAdders == {"add_marker", "add_region"}
\* The transport is started in the runs of ProjectInfoSpec.
TransportStarters == {"start_playback"}
DispatchInputs ==
    {<<c, p>> : c \in MalformedCommands, p \in Malformed}
    \cup {<<c, PyNone>> : c \in NoParamTools \ TransportStarters}
    \cup UNION {{<<c, p>> : p \in WellFormed(c)} :
                   c \in CommandNames \ (MarkerAdders \cup TransportStarters)}

\* ... and the calls during which the native layer fails.
FaultCommands == {"get_project_info", "set_item_notes", "add_fx"}
FaultInputs == UNION {{<<c, p>> : p \in WellFormed(c)} : c \in FaultCommands}

\* IndexSpec's inputs: every command with its index arguments from one below
\* the valid range to one past it.
IndexInputs ==
    UNION {{<<c, PyDict(m)>> :
              m \in {x \in Args(c, -1..MaxTracks, -1..MaxItems, -1..MaxFx,
                                 -1..NumParams, -2..(MaxTracks + 1)) :
                        "notes" \in DOMAIN x => x.notes = <<>>}} :
           c \in CommandNames \ (MarkerAdders \cup TransportStarters)}

\* ------------------------------------------------------------ actions
RECURSIVE SumOver(_, _, _)
SumOver(trs, i, field) ==
    IF i > Len(trs) THEN 0 ELSE Len(trs[i][field]) + SumOver(trs, i + 1, field)

\* The project sizes the model explores: tracks, and items and FX over all
\* tracks.
WithinItemBound(trs, item_bound) ==
    /\ Len(trs) <= MaxTracks
    /\ SumOver(trs, 1, "items") <= item_bound
    /\ SumOver(trs, 1, "fx") <= MaxFx
    /\ \A t \in DOMAIN trs : \A i \in DOMAIN trs[t].items :
          Len(trs[t].items[i].notes) <= MaxNotes

WithinBounds(trs) == WithinItemBound(trs, MaxItems)

NoPayload == [kind |-> "none", text |-> NoText, error |-> NoExc]

NoCall ==
    NoHandler([api_module |-> "None"]) @@
    [op |-> "none", cmd |-> "", params |-> PyNone, kind |-> "none",
     error |-> NoExc, result |-> <<>>, attempts |-> 0, configure_calls |-> 0,
     configure |-> "n/a", api_before |-> "None", flag_before |-> FALSE,
     tracks_before |-> <<>>, project_before |-> NewProject,
     sent_before |-> <<>>, tool |-> "", tool_args |-> <<>>, payload |-> NoPayload]

InitialProjects ==
    {<<>>,
     <<[NewTrack EXCEPT !.name = "Lead", !.items = <<AudioItem>>]>>,
     <<[NewTrack EXCEPT !.name = "Lead", !.items = <<EmptyItem>>]>>}

\* A client before its first call, on one of the given projects.
InitOn(projects, natives) ==
    /\ api_module = "None"
    /\ auto_configured = FALSE
    /\ tracks \in projects
    /\ project \in natives
    /\ api_initializations = 0
    /\ configure_attempts = 0
    /\ configure_calls = 0
    /\ _responses = <<>>
    /\ commands_sent = <<>>
    /\ last = NoCall

InitClient == InitOn(InitialProjects, {NewProject})

\* A ReapyClient, freshly constructed.
Init ==
    /\ client = "ReapyClient"
    /\ InitClient

\* A server created over either client.
InitFacade ==
    /\ client \in {"ReapyClient", "FakeReaperClient"}
    /\ InitClient

\* One send_command on the ReapyClient, run to its end; op says who called.
DispatchWithin(item_bound, op, command_type, params, env, tool, tool_args) ==
    /\ last.op = "none"
    /\ client = "ReapyClient"
    /\ \E r \in {send_command(command_type, params, Self, env)} :
       /\ WithinItemBound(r.tracks, item_bound)
       /\ Len(r.project.markers) <= MaxMarkers
       /\ configure_attempts + r.attempts <= MaxAttempts
       /\ api_module' = r.api_module
       /\ auto_configured' = r.auto_configured
       /\ tracks' = r.tracks
       /\ project' = r.project
       /\ api_initializations' = api_initializations + r.initializations
       /\ configure_attempts' = configure_attempts + r.attempts
       /\ configure_calls' = configure_calls + r.configure_calls
       /\ last' = [op |-> op, cmd |-> command_type, params |-> params,
                   invoked |-> r.invoked, invocations |-> r.invocations,
                   kwargs |-> r.kwargs, raised |-> r.raised,
                   handler_result |-> r.handler_result, calls |-> r.calls,
                   api_after_handler |-> r.api_after_handler,
                   initializations |-> r.initializations,
                   kind |-> r.kind, error |-> r.error, result |-> r.result,
                   attempts |-> r.attempts, configure_calls |-> r.configure_calls,
                   configure |-> IF r.attempts = 1 THEN env.configure ELSE "n/a",
                   api_before |-> api_module, flag_before |-> auto_configured,
                   tracks_before |-> tracks, project_before |-> project,
                   sent_before |-> commands_sent, tool |-> tool,
                   tool_args |-> tool_args,
                   payload |-> IF op = "tool" THEN _call(r) ELSE NoPayload]
    /\ UNCHANGED <<client, _responses, commands_sent>>

Dispatch(op, command_type, params, env, tool, tool_args) ==
    DispatchWithin(MaxItems, op, command_type, params, env, tool, tool_args)

SendCommand(command_type, params, env) ==
    Dispatch("send_command", command_type, params, env, "", <<>>)

\* A tool of the facade over the ReapyClient.
ToolCall(tool, args, env) ==
    Dispatch("tool", ForwardedCommand(tool), ToolParams(tool, args), env, tool, args)

\* FakeReaperClient.set_response
SetResponse(command_type, result) ==
    /\ last.op = "none"
    /\ client = "FakeReaperClient"
    /\ _responses' = [c \in DOMAIN _responses \cup {command_type} |->
                         IF c = command_type THEN result ELSE _responses[c]]
    /\ UNCHANGED <<api_module, auto_configured, tracks, project, api_initializations,
                   configure_attempts, configure_calls, client, commands_sent, last>>

\* A tool of the facade over the FakeReaperClient.
FakeToolCall(tool, args) ==
    /\ last.op = "none"
    /\ client = "FakeReaperClient"
    /\ Len(commands_sent) < MaxSent
    /\ \E r \in {FakeSendCommand(ForwardedCommand(tool), ToolParams(tool, args),
                                  _responses, commands_sent)} :
       /\ commands_sent' = r.commands_sent
       /\ last' = [NoCall EXCEPT !.op = "tool", !.cmd = ForwardedCommand(tool),
                                 !.tool = tool,
                                 !.params = ToolParams(tool, args),
                                 !.kind = r.kind, !.error = r.error,
                                 !.result = r.result, !.tool_args = args,
                                 !.sent_before = commands_sent,
                                 !.payload = _call(r)]
    /\ UNCHANGED <<api_module, auto_configured, tracks, project, api_initializations,
                   configure_attempts, configure_calls, client, _responses>>

\* The caller takes the outcome; the next call starts from a clean trace.
Return ==
    /\ last.op # "none"
    /\ last' = NoCall
    /\ UNCHANGED <<api_module, auto_configured, tracks, project, api_initializations,
                   configure_attempts, configure_calls, client, _responses, commands_sent>>

Next ==
    \/ /\ last.op = "none"
       /\ \E inp \in DispatchInputs : SendCommand(inp[1], inp[2], NoFault)
    \/ /\ last.op = "none"
       /\ \E inp \in FaultInputs, env \in Envs(api_module) \ {NoFault} :
            SendCommand(inp[1], inp[2], env)
    \/ Return

Spec == Init /\ [][Next]_vars

NextIndex ==
    \/ /\ last.op = "none"
       /\ \E inp \in IndexInputs : SendCommand(inp[1], inp[2], NoFault)
    \/ Return

IndexSpec == Init /\ [][NextIndex]_vars

\* The facade's tools, over the ReapyClient (with the native layer failing in
\* some calls) and over the fake with canned responses.
ToolInputs ==
    UNION {{<<t, m>> : m \in {x \in Args(t, {0}, {0}, {0}, {0}, {-1}) :
                                 "notes" \in DOMAIN x => x.notes = <<>>}} :
             t \in ToolNames \ (MarkerAdders \cup TransportStarters)}
    \cup {<<"add_marker", [position |-> StrArg("abc")]>>,
          <<"add_region", [start |-> IntArg(0), end |-> StrArg("abc")]>>}
FaultTools == {<<"get_project_info", <<>>>>, <<"add_fx", [track_index |-> 0, fx_name |-> "ReaEQ"]>>}
FakeTools == {"get_project_info", "create_track_with_fx"}
FakeResults ==
    {[tempo |-> PyFloat(120), track_count |-> PyInt(3), is_playing |-> PyBool(FALSE)],
     [name |-> PyStr("Take"), data |-> PyBytes("0x90 0x3C 0x7F")]}

NextFacade ==
    \/ /\ last.op = "none"
       /\ \E inp \in ToolInputs : ToolCall(inp[1], inp[2], NoFault)
    \/ /\ last.op = "none"
       /\ \E inp \in FaultTools, env \in Envs(api_module) \ {NoFault} :
            ToolCall(inp[1], inp[2], env)
    \/ \E c \in FakeTools, result \in FakeResults : SetResponse(c, result)
    \/ \E inp \in ToolInputs : inp[1] \in FakeTools /\ FakeToolCall(inp[1], inp[2])
    \/ Return

FacadeSpec == InitFacade /\ [][NextFacade]_vars

\* Volume, pan and tempo, set to values below, inside and above their ranges,
\* as int, float (the infinities and NaN included) and str.
ValueArgs ==
    {IntArg(n) : n \in {-1, 0, 1, 3, 2000}}
    \cup {FloatArg(x) : x \in {Whole(-1), Finite(-1), Finite(1), Whole(5), Whole(10),
                                 Finite(1921), PosInf, NegInf, NaN}}
    \cup {StrArg("loud")}
ValueInputs ==
    {<<"set_track_volume", PyDict([track_index |-> t, volume |-> v])>> :
        t \in {0}, v \in ValueArgs}
    \cup {<<"set_track_pan", PyDict([track_index |-> t, pan |-> v])>> :
             t \in {0}, v \in ValueArgs}
    \cup {<<"set_tempo", PyDict([tempo |-> v])>> : v \in ValueArgs}

NextValue ==
    \/ /\ last.op = "none"
       /\ \E inp \in ValueInputs : SendCommand(inp[1], inp[2], NoFault)
    \/ Return

ValueSpec == Init /\ [][NextValue]_vars

\* Projects whose one track carries one FX, its parameters reporting a usual
\* range, a wide one or one whose minimum lies above its maximum.
ParamRanges ==
    {Param(Whole(0), Whole(0), Whole(1)), Param(Whole(0), Whole(-2), Whole(2)),
     Param(Whole(1), Whole(1), Whole(0))}
FxProjects ==
    {<<[NewTrack EXCEPT !.fx = <<[NewFx("ReaEQ") EXCEPT
                                     !.params = [i \in 1..NumParams |-> r]]>>]>> :
        r \in ParamRanges}
FxValueArgs ==
    {IntArg(n) : n \in {-3, 0, 1, 3}}
    \cup {FloatArg(x) : x \in {Finite(1), PosInf, NegInf, NaN}}
    \cup {StrArg("max")}
FxInputs ==
    {<<"set_fx_parameter",
       PyDict([track_index |-> 0, fx_index |-> f, param_index |-> p, value |-> v])>> :
        f \in -1..MaxFx, p \in -1..NumParams, v \in FxValueArgs}
    \cup {<<"get_fx_parameters", PyDict([track_index |-> 0, fx_index |-> f])>> :
             f \in -1..MaxFx}

InitFx ==
    /\ client = "ReapyClient"
    /\ InitOn(FxProjects, {NewProject})

NextFx ==
    \/ /\ last.op = "none"
       /\ \E inp \in FxInputs : SendCommand(inp[1], inp[2], NoFault)
    \/ Return

FxSpec == InitFx /\ [][NextFx]_vars

\* Projects whose one track carries one MIDI item, its take holding no note,
\* one or two.
HeldNote(pitch, start_ppq) ==
    [muted |-> FALSE, start_ppq |-> start_ppq, end_ppq |-> start_ppq + 480,
     pitch |-> pitch, vel |-> 90]
HeldNotes == {<<>>, <<HeldNote(40, 0)>>, <<HeldNote(40, 0), HeldNote(43, 960)>>}
NoteProjects ==
    {<<[NewTrack EXCEPT !.items = <<[MidiItem EXCEPT !.notes = held]>>]>> :
        held \in HeldNotes}
    \cup {<<[NewTrack EXCEPT !.items = <<item>>]>> : item \in {AudioItem, EmptyItem}}
\* Note mappings: all keys given, some left to their defaults, starts on and
\* between beats.
NoteArgs ==
    {Note60,
     [pitch |-> 64, start_time |-> FloatArg(Finite(1)), duration |-> FloatArg(Finite(1)),
      velocity |-> 80, mute |-> TRUE],
     [pitch |-> 67],
     [pitch |-> 72, start_time |-> IntArg(2)]}
NoteLists ==
    {<<>>} \cup {<<n>> : n \in NoteArgs} \cup {<<n, m>> : n \in NoteArgs, m \in NoteArgs}
NoteInputs ==
    {<<"set_item_notes", PyDict([track_index |-> 0, item_index |-> 0, notes |-> l])>> :
        l \in NoteLists \cup {<<Note60, [start_time |-> StrArg("soon")]>>}}
    \cup {<<"set_item_notes",
            PyDict([track_index |-> 0, item_index |-> 0, notes |-> l, append |-> ap])>> :
             l \in {<<Note60>>, <<[pitch |-> 67]>>}, ap \in BOOLEAN}
    \cup {<<"get_item_notes", PyDict([track_index |-> 0, item_index |-> 0])>>}

InitNote ==
    /\ client = "ReapyClient"
    /\ InitOn(NoteProjects, {NewProject})

NextNote ==
    \/ /\ last.op = "none"
       /\ \E inp \in NoteInputs : SendCommand(inp[1], inp[2], NoFault)
    \/ Return

NoteSpec == InitNote /\ [][NextNote]_vars

\* Projects holding no marker, or markers and regions in some enumeration
\* order, and the three marker commands.
Intro == MarkerEntry(TRUE, 0, 128, "Intro", 1)
Chorus == MarkerEntry(FALSE, 64, 0, "Chorus", 1)
MarkerLists ==
    {<<>>, <<Intro, Chorus>>, <<Chorus, MarkerEntry(TRUE, 64, 96, "Verse", 1)>>,
     <<MarkerEntry(FALSE, 0, 0, "", 2), Intro>>}
MarkerProjects == {[NewProject EXCEPT !.markers = l] : l \in MarkerLists}
MarkerInputs ==
    {<<"add_marker", PyDict(m)>> :
        m \in [position : {IntArg(16), FloatArg(Finite(1))}, name : {"Chorus"}]
              \cup [position : {IntArg(0), StrArg("end")}]}
    \cup {<<"add_region", PyDict(m)>> :
             m \in [start : {IntArg(0)}, end : {IntArg(32)}, name : {"Intro"}]
                   \cup [start : {IntArg(8)}, end : {IntArg(4)}]}
    \cup {<<"get_markers", p>> : p \in {PyNone, EmptyDict}}

InitMarker ==
    /\ client = "ReapyClient"
    /\ InitOn({<<>>}, MarkerProjects)

NextMarker ==
    \/ /\ last.op = "none"
       /\ \E inp \in MarkerInputs : SendCommand(inp[1], inp[2], NoFault)
    \/ Return

MarkerSpec == InitMarker /\ [][NextMarker]_vars

\* Every tool of the facade over the fake client, with its optional
\* arguments given and left out.
ForwardInputs ==
    UNION {{<<t, m>> : m \in Args(t, {0}, {0}, {0}, {0}, {-1})} : t \in ToolNames}
    \cup {<<"create_track_with_fx", [fx_name |-> "ReaEQ", name |-> ""]>>,
          <<"create_track_with_fx", [fx_name |-> "ReaEQ", name |-> "Lead"]>>,
          <<"add_marker", [position |-> IntArg(16)]>>,
          <<"add_region", [start |-> IntArg(0), end |-> IntArg(32)]>>}

InitForward ==
    /\ client = "FakeReaperClient"
    /\ InitClient

NextForward ==
    \/ \E inp \in ForwardInputs : FakeToolCall(inp[1], inp[2])
    \/ SetResponse("get_project_info", [track_count |-> PyInt(3)])
    \/ Return

ForwardSpec == InitForward /\ [][NextForward]_vars


\* --------------------------------------------------------- properties
\* The classes of the connection errors, and of the generic runtime error,
\* written out.
ConnectionClasses ==
    {"OSError", "ConnectionError", "ConnectionRefusedError", "FileNotFoundError",
     "DisabledDistAPIError", "DisconnectedClientError"}
RuntimeErrorClasses == {"RuntimeError", "NotImplementedError", "RecursionError"}
AttemptsBefore == configure_attempts - last.attempts

\* C1: over any sequence of send_command calls on one client, whatever the
\* handlers, exceptions and configure outcomes, the auto-configure step is
\* entered at most once and reapy.configure_reaper() is called at most once.
C1_ConfigureAtMostOnce ==
    /\ configure_attempts <= 1
    /\ configure_calls <= 1

\* A connection error arrives after the one attempt has been made.
C1_Witness ==
    /\ configure_calls = 1
    /\ last.invoked
    /\ last.flag_before
    /\ last.raised.cls \in ConnectionClasses

\* C2: a handler raising a connection error while no attempt has been made
\* makes send_command clear the handle, set the flag, run auto-configure once
\* and fail with the "auto-configured" message when it reports success and
\* with the "auto-configuration failed" message when it does not.
C2_FirstConnectionErrorConfigures ==
    (last.invoked /\ AttemptsBefore = 0 /\ last.raised.cls \in ConnectionClasses)
    => /\ api_module = "None"
       /\ auto_configured
       /\ last.attempts = 1
       /\ last.configure_calls <= 1
       /\ last.configure_calls = 1 <=> last.configure # "import_raises"
       /\ last.kind = "raise"
       /\ last.error =
            RuntimeError(IF last.configure = "ok"
                         THEN "Could not connect to REAPER. reapy has been auto-configured - please restart REAPER and try again."
                         ELSE "Could not connect to REAPER and auto-configuration failed. Please run: python -c \"import reapy; reapy.configure_reaper()\" then restart REAPER.")

\* The first connection error hits a loaded handle and configure succeeds.
C2_Witness ==
    /\ last.invoked
    /\ AttemptsBefore = 0
    /\ last.raised.cls = "ConnectionRefusedError"
    /\ last.api_after_handler = "reapy.reascript_api"
    /\ last.configure = "ok"
    /\ last.error.msg = MsgAutoConfigured

\* C3: once an attempt has been made, a handler raising a connection error
\* makes send_command fail with a RuntimeError carrying that error's message,
\* without another attempt, and the flag stays set.
C3_LaterConnectionErrorsSurfaceRaw ==
    (last.invoked /\ AttemptsBefore >= 1 /\ last.raised.cls \in ConnectionClasses)
    => /\ last.kind = "raise"
       /\ last.error = RuntimeError(last.raised.msg)
       /\ last.attempts = 0
       /\ last.configure_calls = 0
       /\ auto_configured

C3_Witness ==
    /\ last.invoked
    /\ AttemptsBefore = 1
    /\ last.raised = Exc("OSError", "Connection refused")
    /\ last.error = RuntimeError("Connection refused")

\* C4 (as stated): a tool never raises past the facade; whatever the client
\* call or the serialization did, the tool returns text, and after a failure
\* that text is the single-key object {"error": <message>}.
C4_ToolNeverRaises ==
    last.op = "tool"
    => /\ last.payload.kind = "return"
       /\ (last.kind = "raise" \/ ~Serializable(PyMap(last.result)))
          => /\ last.payload.text.json = "object"
             /\ DOMAIN last.payload.text.members = {"error"}

\* C4 (what holds): a client call that ends in a RuntimeError makes the tool
\* return the single-key object {"error": str(e)}, and one that returns a
\* serializable mapping makes it return that mapping's JSON text.
C4_RuntimeErrorBecomesPayload ==
    last.op = "tool"
    => /\ (last.kind = "raise" /\ last.error.cls \in RuntimeErrorClasses)
          => /\ last.payload.kind = "return"
             /\ last.payload.text =
                  [json |-> "object",
                   members |-> [error |-> [json |-> "string", v |-> last.error.msg]]]
       /\ (last.kind = "return" /\ Serializable(PyMap(last.result)))
          => /\ last.payload.kind = "return"
             /\ last.payload.text.json = "object"
             /\ DOMAIN last.payload.text.members = DOMAIN last.result

C4_Witness ==
    /\ last.op = "tool"
    /\ client = "ReapyClient"
    /\ last.raised.cls = "DisconnectedClientError"
    /\ last.payload.kind = "return"
    /\ DOMAIN last.payload.text.members = {"error"}

\* C5: an unregistered command name fails with RuntimeError "Unknown command:
\* <name>"; no handler, native call or configure step runs, and the flag, the
\* handle and the project are as before.
C5_UnknownCommand ==
    (last.op # "none" /\ last.cmd \notin CommandNames)
    => /\ last.kind = "raise"
       /\ last.error = RuntimeError("Unknown command: " \o last.cmd)
       /\ ~last.invoked
       /\ last.calls = <<>>
       /\ last.attempts = 0
       /\ last.configure_calls = 0
       /\ auto_configured = last.flag_before
       /\ api_module = last.api_before
       /\ tracks = last.tracks_before

C5_Witness ==
    /\ last.op = "send_command"
    /\ last.cmd = "nonexistent_command"
    /\ last.flag_before
    /\ last.error.msg = "Unknown command: nonexistent_command"

\* C6: when the handler of a registered command returns, send_command returns
\* the handler's mapping as it is, the handler having been called with the
\* entries of the parameter mapping as its keyword arguments.
C6_ReturnsHandlerResult ==
    (last.invoked /\ last.raised = NoExc)
    => /\ last.cmd \in CommandNames
       /\ last.kind = "return"
       /\ last.result = last.handler_result
       /\ ~last.kwargs.isNone
       /\ last.kwargs.map = (IF last.params.isNone THEN <<>> ELSE last.params.map)
       /\ last.handler_result =
            Handler(last.cmd, Bind(last.cmd, last.kwargs.map).args,
                    last.tracks_before, last.project_before).result

C6_Witness ==
    /\ last.op = "send_command"
    /\ last.cmd = "create_track_with_fx"
    /\ last.params = PyDict([fx_name |-> "ReaEQ", index |-> -1, name |-> "Lead"])
    /\ last.kind = "return"
    /\ last.result.name = PyStr("Lead")

\* C7: a handler raising RuntimeError (or a subclass) has that same error
\* propagated, class and message; no configure step runs and the flag and the
\* handle stay as the handler left them.
C7_RuntimeErrorNotWrapped ==
    (last.invoked /\ last.raised.cls \in RuntimeErrorClasses)
    => /\ last.kind = "raise"
       /\ last.error = last.raised
       /\ last.attempts = 0
       /\ last.configure_calls = 0
       /\ auto_configured = last.flag_before
       /\ api_module = last.api_after_handler

C7_Witness ==
    /\ last.invoked
    /\ last.raised = Exc("NotImplementedError", "not implemented")
    /\ last.error = last.raised
    /\ ~last.flag_before

\* C8: an exception counts as a connection error exactly when it is an OSError
\* (subclasses included) or its type is named DisabledDistAPIError or
\* DisconnectedClientError; any other exception that is not a RuntimeError
\* never starts a configure step, leaves the flag and the handle alone and
\* comes out as a RuntimeError with the original message.
C8_ConnectionClassification ==
    /\ \A f \in Faults : _is_connection_error(f) <=> f.cls \in ConnectionClasses
    /\ (last.invoked /\ last.raised # NoExc
                     /\ last.raised.cls \notin RuntimeErrorClasses)
       => /\ _is_connection_error(last.raised) <=> last.raised.cls \in ConnectionClasses
          /\ (AttemptsBefore = 0)
             => (last.attempts = 1 <=> last.raised.cls \in ConnectionClasses)
          /\ last.raised.cls \notin ConnectionClasses
             => /\ last.kind = "raise"
                /\ last.error = RuntimeError(last.raised.msg)
                /\ last.attempts = 0
                /\ last.configure_calls = 0
                /\ auto_configured = last.flag_before
                /\ api_module = last.api_after_handler

\* A ValueError from the native layer, before any attempt, is wrapped.
C8_Witness ==
    /\ last.invoked
    /\ AttemptsBefore = 0
    /\ last.raised = Exc("ValueError", "bad argument")
    /\ last.error = RuntimeError("bad argument")
    /\ ~auto_configured

\* C9: in every client state and for every command name, send_command(cmd,
\* None) and send_command(cmd, {}) do the same: the same handler call with no
\* keyword arguments, the same result or error, the same client afterwards
\* (with the native layer failing, in each way it can, in the commands where
\* the specification lets it fail).
C9_NoneIsEmpty ==
    last.op = "none"
    => \A cmd \in CommandNames \cup {"nonexistent_command"} :
         \A env \in (IF cmd \in FaultCommands THEN Envs(api_module) ELSE {NoFault}) :
           LET none == send_command(cmd, PyNone, Self, env) IN
           /\ none = send_command(cmd, EmptyDict, Self, env)
           /\ none.invoked => none.kwargs = EmptyDict

\* A call with None has run its handler with no keyword arguments.
C9_Witness ==
    /\ last.op = "send_command"
    /\ last.params = PyNone
    /\ last.cmd = "delete_all_tracks"
    /\ last.kwargs = EmptyDict
    /\ last.kind = "return"
    /\ Len(last.tracks_before) = MaxTracks

\* The index arguments of the latest call, against the project it started on.
LastArgs == last.kwargs.map
TrackOutOfRange ==
    /\ "track_index" \in DOMAIN LastArgs
    /\ (LastArgs.track_index < 0 \/ LastArgs.track_index >= Len(last.tracks_before))
LastTrack == last.tracks_before[LastArgs.track_index + 1]
ItemOutOfRange ==
    /\ "item_index" \in DOMAIN LastArgs
    /\ ~TrackOutOfRange
    /\ (LastArgs.item_index < 0 \/ LastArgs.item_index >= Len(LastTrack.items))
FxOutOfRange ==
    /\ "fx_index" \in DOMAIN LastArgs
    /\ ~TrackOutOfRange
    /\ (LastArgs.fx_index < 0 \/ LastArgs.fx_index >= Len(LastTrack.fx))
ParamOutOfRange ==
    /\ "param_index" \in DOMAIN LastArgs
    /\ ~TrackOutOfRange
    /\ ~FxOutOfRange
    /\ (LastArgs.param_index < 0
        \/ LastArgs.param_index >= LastTrack.fx[LastArgs.fx_index + 1].nparams)
\* An insertion index: -1 appends, 0..count names a position.
InsertionOutOfRange ==
    /\ "index" \in DOMAIN LastArgs
    /\ (LastArgs.index < -1 \/ LastArgs.index > Len(last.tracks_before))
ExpectedRangeError ==
    IF TrackOutOfRange
    THEN ValueError("Track index " \o ToString(LastArgs.track_index)
                    \o " out of range (0-" \o ToString(Len(last.tracks_before) - 1) \o ")")
    ELSE IF ItemOutOfRange
    THEN ValueError("Item index " \o ToString(LastArgs.item_index)
                    \o " out of range (0-" \o ToString(Len(LastTrack.items) - 1) \o ")")
    ELSE IF FxOutOfRange
    THEN ValueError("FX index " \o ToString(LastArgs.fx_index)
                    \o " out of range (0-" \o ToString(Len(LastTrack.fx) - 1) \o ")")
    ELSE ValueError("Parameter index " \o ToString(LastArgs.param_index)
                    \o " out of range (0-"
                    \o ToString(LastTrack.fx[LastArgs.fx_index + 1].nparams - 1) \o ")")
NoMutation ==
    /\ tracks = last.tracks_before
    /\ \A i \in DOMAIN last.calls : last.calls[i] \notin MutatingCalls
RangeErrorBeforeMutation ==
    /\ last.kind = "raise"
    /\ last.raised.cls = "ValueError"
    /\ NoMutation

\* C10 (as stated): for every command, an out-of-range track, item, FX,
\* parameter or insertion index makes the call fail with a range error before
\* any native mutation.
C10_EveryIndexValidated ==
    (last.invoked /\ last.raised.cls # "TypeError"
       /\ (TrackOutOfRange \/ ItemOutOfRange \/ FxOutOfRange \/ ParamOutOfRange
           \/ InsertionOutOfRange))
    => RangeErrorBeforeMutation

\* C10 (what holds): an out-of-range track_index, item_index, fx_index or
\* param_index fails with the ValueError naming the argument and the range
\* 0..count-1 of the count read in that call, before any native mutation.
C10_LookupIndicesValidated ==
    (last.invoked /\ last.raised.cls # "TypeError"
       /\ (TrackOutOfRange \/ ItemOutOfRange \/ FxOutOfRange \/ ParamOutOfRange))
    => /\ RangeErrorBeforeMutation
       /\ last.raised = ExpectedRangeError
       /\ last.error = RuntimeError(ExpectedRangeError.msg)

\* A parameter index one past the FX's parameters is refused.
C10_Witness ==
    /\ last.cmd = "set_fx_parameter"
    /\ ParamOutOfRange
    /\ LastArgs.param_index = NumParams
    /\ last.error.msg = "Parameter index " \o ToString(NumParams)
                          \o " out of range (0-" \o ToString(NumParams - 1) \o ")"

\* ---- the track lookup
CommandsWithTrackLookup ==
    {"get_track_info", "delete_track", "set_track_name", "set_track_volume",
     "set_track_pan", "set_track_mute", "set_track_solo", "get_items",
     "create_midi_item", "delete_item", "duplicate_item", "set_item_name",
     "get_item_notes", "set_item_notes", "add_fx", "remove_fx",
     "get_fx_parameters", "set_fx_parameter"}
IsTrackRangeError(e) ==
    /\ e # NoExc
    /\ e.cls = "ValueError"
    /\ \E idx \in -2..(MaxTracks + 2), count \in 0..(MaxTracks + 1) :
         e.msg = "Track index " \o ToString(idx) \o " out of range (0-"
                   \o ToString(count - 1) \o ")"

\* C11: for every command that resolves its track through the track lookup,
\* a track index that is negative, equal to the track count or larger fails
\* with the range error naming 0..count-1, after the count alone was read (the
\* native track is never fetched), and leaves the project as it was; an index
\* in 0..count-1 passes the lookup: the track is fetched and no track range
\* error is raised.
C11_TrackLookupRange ==
    (last.invoked /\ last.cmd \in CommandsWithTrackLookup
                  /\ last.raised.cls # "TypeError")
    => LET idx == LastArgs.track_index
           count == Len(last.tracks_before) IN
       IF idx < 0 \/ idx >= count
       THEN /\ last.raised = ValueError("Track index " \o ToString(idx)
                                \o " out of range (0-" \o ToString(count - 1) \o ")")
            /\ last.kind = "raise"
            /\ last.error = RuntimeError(last.raised.msg)
            /\ last.calls = <<"CountTracks">>
            /\ tracks = last.tracks_before
       ELSE /\ ~IsTrackRangeError(last.raised)
            /\ Len(last.calls) >= 2
            /\ last.calls[1] = "CountTracks"
            /\ last.calls[2] = "GetTrack"

\* An index equal to the track count of a non-empty project is refused.
C11_Witness ==
    /\ last.invoked
    /\ last.cmd = "set_track_volume"
    /\ Len(last.tracks_before) = MaxTracks
    /\ LastArgs.track_index = MaxTracks
    /\ last.error.msg = "Track index " \o ToString(MaxTracks)
                          \o " out of range (0-" \o ToString(MaxTracks - 1) \o ")"
    /\ tracks = last.tracks_before

\* The last valid index passes the lookup.
C11_WitnessInRange ==
    /\ last.invoked
    /\ last.cmd = "set_track_volume"
    /\ LastArgs.track_index = Len(last.tracks_before) - 1
    /\ last.kind = "return"

\* ---- clamping
\* x brought into lo..hi, for a float x that is not NaN.
ClampedInto(lo, hi, x) ==
    IF FloatLt(x, lo) THEN lo ELSE IF FloatLt(hi, x) THEN hi ELSE x
\* The latest call set a clamped value: the argument it was given, the range,
\* and the value the native project holds for it afterwards.
LastClamp ==
    CASE last.cmd = "set_track_volume" ->
           [arg |-> LastArgs.volume, lo |-> Whole(0), hi |-> Whole(4),
            stored |-> tracks[LastArgs.track_index + 1].D_VOL, call |-> "SetMediaTrackInfo_Value"]
      [] last.cmd = "set_track_pan" ->
           [arg |-> LastArgs.pan, lo |-> Whole(-1), hi |-> Whole(1),
            stored |-> tracks[LastArgs.track_index + 1].D_PAN, call |-> "SetMediaTrackInfo_Value"]
      [] last.cmd = "set_tempo" ->
           [arg |-> LastArgs.tempo, lo |-> Whole(1), hi |-> Whole(960),
            stored |-> project.tempo, call |-> "SetCurrentBPM"]
ClampCall ==
    /\ last.invoked
    /\ last.cmd \in {"set_track_volume", "set_track_pan", "set_tempo"}
    /\ last.raised.cls # "TypeError"
    /\ ~TrackOutOfRange
Wrote(call) == \E i \in DOMAIN last.calls : last.calls[i] = call

C12_WitnessOthers ==
    /\ last.cmd = "set_tempo"
    /\ LastArgs.tempo = IntArg(2000)
    /\ project.tempo = Whole(960)
    /\ Len(tracks) = 1
    /\ tracks[1].D_PAN = Whole(1)
    /\ tracks[1].D_VOL = Whole(0)

\* ---- FX parameters
\* The parameter the latest set_fx_parameter call named, before and after it.
LastParamBefore ==
    last.tracks_before[LastArgs.track_index + 1].fx[LastArgs.fx_index + 1]
        .params[LastArgs.param_index + 1]
LastParamAfter ==
    tracks[LastArgs.track_index + 1].fx[LastArgs.fx_index + 1]
        .params[LastArgs.param_index + 1]
IndexOf(call) ==
    IF Wrote(call) THEN CHOOSE i \in DOMAIN last.calls : last.calls[i] = call ELSE 0

\* C13: set_fx_parameter with valid track, FX and parameter indices and a
\* numeric value reads the parameter's minimum and maximum, then writes the
\* value clamped to them and returns that value: the written value lies in
\* [min, max] whenever min <= max, and only that parameter's value changes.
\* An out-of-range FX or parameter index (and a value float() refuses) fails
\* with nothing written.
C13_SetFxParameterClamps ==
    (last.invoked /\ last.cmd = "set_fx_parameter" /\ last.raised.cls # "TypeError")
    => IF TrackOutOfRange \/ FxOutOfRange \/ ParamOutOfRange
          \/ LastArgs.value.py = "str"
       THEN /\ last.kind = "raise"
            /\ ~Wrote("TrackFX_SetParam")
            /\ tracks = last.tracks_before
       ELSE LET p == LastParamBefore
                v == Flt(LastArgs.value.kind, LastArgs.value.h)
                written == LastParamAfter.value IN
            /\ last.kind = "return"
            /\ 0 < IndexOf("TrackFX_GetParam")
            /\ IndexOf("TrackFX_GetParam") < IndexOf("TrackFX_SetParam")
            /\ ~FloatLt(p.max, p.min)
               => /\ ~FloatLt(written, p.min) /\ ~FloatLt(p.max, written)
                  /\ (~FloatLt(v, p.min) /\ ~FloatLt(p.max, v) /\ v.kind # "nan")
                     => written = v
                  /\ FloatLt(v, p.min) => written = p.min
                  /\ FloatLt(p.max, v) => written = p.max
            /\ last.result.value = FloatResult(written)
            /\ tracks = [last.tracks_before EXCEPT
                           ![LastArgs.track_index + 1].fx[LastArgs.fx_index + 1]
                              .params[LastArgs.param_index + 1].value = written]

\* A value above the reported maximum was written as the maximum.
C13_Witness ==
    /\ last.cmd = "set_fx_parameter"
    /\ last.kind = "return"
    /\ LastArgs.value = IntArg(3)
    /\ LastParamBefore.min = Whole(-2)
    /\ LastParamBefore.max = Whole(2)
    /\ LastParamAfter.value = Whole(2)
    /\ last.result.value = FloatResult(Whole(2))

\* ---- notes
\* The entry a written note mapping is expected to come back as: its pitch,
\* velocity and mute, start and duration in beats, defaults filled in.
WrittenStart(n) == PyFloatOf(DictGet(n, "start_time", FloatArg(Whole(0)))).x
WrittenEntry(n) ==
    PyMap([pitch |-> PyInt(DictGet(n, "pitch", 60)),
           start_time |-> FloatResult(WrittenStart(n)),
           duration |-> FloatResult(PyFloatOf(DictGet(n, "duration",
                                                      FloatArg(Finite(1)))).x),
           velocity |-> PyInt(DictGet(n, "velocity", 100)),
           mute |-> PyBool(DictGet(n, "mute", FALSE))])
\* get_item_notes on the item the latest call named, in the current state.
ReadBack ==
    send_command("get_item_notes",
                 PyDict([track_index |-> LastArgs.track_index,
                         item_index |-> LastArgs.item_index]), Self, NoFault)
\* got holds the entries of the written notes, each once, in order of start.
SameNotesInStartOrder(got, written) ==
    /\ Len(got) = Len(written)
    /\ \E p \in Permutations(DOMAIN written) :
         /\ \A i \in DOMAIN written : got[i] = WrittenEntry(written[p[i]])
         /\ \A i \in DOMAIN written : \A j \in DOMAIN written :
              i < j => ~FloatLt(WrittenStart(written[p[j]]), WrittenStart(written[p[i]]))

\* append as the latest call was given it (false when left out).
LastAppend == IF "append" \in DOMAIN LastArgs THEN LastArgs.append ELSE FALSE

\* C14: after set_item_notes in replace mode has returned on a MIDI take,
\* get_item_notes on the same item returns the written notes and no other:
\* each with its pitch, velocity and mute and its start and duration in beats
\* (defaults filled in), in order of start, whatever the take held before.
C14_NotesRoundTrip ==
    (last.invoked /\ last.cmd = "set_item_notes" /\ last.kind = "return"
                  /\ ~LastAppend)
    => /\ ReadBack.kind = "return"
       /\ SameNotesInStartOrder(ReadBack.result.notes.items, LastArgs.notes)
       /\ ReadBack.tracks = tracks

\* Two notes written later-first over a take that held two others.
C14_Witness ==
    /\ last.cmd = "set_item_notes"
    /\ last.kind = "return"
    /\ ~LastAppend
    /\ Len(last.tracks_before[1].items[1].notes) = 2
    /\ LastArgs.notes = <<[pitch |-> 72, start_time |-> IntArg(2)], Note60>>
    /\ ReadBack.result.notes.items = <<WrittenEntry(Note60),
                                       WrittenEntry([pitch |-> 72, start_time |-> IntArg(2)])>>

\* ---- delete_all_tracks
\* C15: delete_all_tracks on a project with n tracks returns deleted = n and
\* remaining_tracks = 0 and leaves the project with no track, so the reported
\* remaining_tracks is the track count after the call.
C15_DeleteAllTracks ==
    (last.invoked /\ last.cmd = "delete_all_tracks" /\ last.raised = NoExc)
    => /\ last.kind = "return"
       /\ last.result = [deleted |-> PyInt(Len(last.tracks_before)),
                         remaining_tracks |-> PyInt(0)]
       /\ Len(tracks) = 0
       /\ last.result.remaining_tracks = PyInt(Len(tracks))

\* A project at the largest explored size was emptied.
C15_Witness ==
    /\ last.invoked
    /\ last.cmd = "delete_all_tracks"
    /\ Len(last.tracks_before) = MaxTracks
    /\ last.result.deleted = PyInt(MaxTracks)
    /\ tracks = <<>>

\* ---- add_fx
\* C16: add_fx on a valid track either fails with "FX not found: <name>",
\* when the native host resolves no plugin of that name, and leaves the FX
\* chain as it was, or returns the index of the new FX, which is not negative,
\* with the display name the host reports for the FX at that index.
C16_AddFxOutcome ==
    (last.invoked /\ last.cmd = "add_fx" /\ last.raised.cls # "TypeError"
                  /\ ~TrackOutOfRange)
    => LET t == LastArgs.track_index + 1 IN
       IF last.kind = "raise"
       THEN /\ LastArgs.fx_name \notin InstalledFx
            /\ last.raised = ValueError("FX not found: " \o LastArgs.fx_name)
            /\ last.error = RuntimeError("FX not found: " \o LastArgs.fx_name)
            /\ tracks = last.tracks_before
       ELSE /\ LastArgs.fx_name \in InstalledFx
            /\ \E k \in 0..MaxFx :
                 /\ last.result.fx_index = PyInt(k)
                 /\ k = Len(last.tracks_before[t].fx)
                 /\ Len(tracks[t].fx) = k + 1
                 /\ last.result.name = PyStr(tracks[t].fx[k + 1].name)
            /\ last.result.name = PyStr(DisplayName(LastArgs.fx_name))

\* A plugin the host resolves was added at the end of the chain.
C16_Witness ==
    /\ last.invoked
    /\ last.cmd = "add_fx"
    /\ last.kind = "return"
    /\ last.result = [fx_index |-> PyInt(0), name |-> PyStr("VST: ReaEQ (Cockos)")]
    /\ Len(tracks[LastArgs.track_index + 1].fx) = 1

\* A name the host does not resolve was refused.
C16_WitnessNotFound ==
    /\ last.invoked
    /\ last.cmd = "add_fx"
    /\ ~TrackOutOfRange
    /\ last.error = RuntimeError("FX not found: NoSuchFx")
    /\ tracks = last.tracks_before

\* ---- get_markers
\* The number of the first i native entries that carry the region flag rgn.
CountFlagged(entries, i, rgn) ==
    Cardinality({j \in 1..i : entries[j].is_rgn = rgn})

\* C17: get_markers enumerates every native marker entry, num_markers +
\* num_regions of them, and puts each into exactly one list by its region
\* flag, in enumeration order: a flagged entry into "regions" with index, name
\* and start and end in beats, any other into "markers" with index, name and
\* position in beats; so len(markers) + len(regions) is the enumerated total.
\* The project is left as it was.
C17_GetMarkersPartition ==
    (last.invoked /\ last.cmd = "get_markers" /\ last.raised.cls # "TypeError")
    => LET e == last.project_before.markers
           ms == last.result.markers.items
           rs == last.result.regions.items IN
       /\ last.kind = "return"
       /\ Len(last.calls) = 1 + Len(e)
       /\ Len(ms) + Len(rs) = Len(e)
       /\ Len(ms) = CountFlagged(e, Len(e), FALSE)
       /\ Len(rs) = CountFlagged(e, Len(e), TRUE)
       /\ \A i \in DOMAIN e :
            IF e[i].is_rgn
            THEN rs[CountFlagged(e, i, TRUE)] =
                   PyMap([index |-> PyInt(e[i].idx), name |-> PyStr(e[i].name),
                          start |-> FloatResult(Finite(e[i].pos_sec \div 2)),
                          end |-> FloatResult(Finite(e[i].rgn_end_sec \div 2))])
            ELSE ms[CountFlagged(e, i, FALSE)] =
                   PyMap([index |-> PyInt(e[i].idx), name |-> PyStr(e[i].name),
                          position |-> FloatResult(Finite(e[i].pos_sec \div 2))])
       /\ project = last.project_before
       /\ tracks = last.tracks_before

\* One region "Intro" over beats 0-32 and one marker "Chorus" at beat 16 come
\* back as one region and one marker.
C17_Witness ==
    /\ last.cmd = "get_markers"
    /\ last.kind = "return"
    /\ project.markers = <<Intro, Chorus>>
    /\ last.result.markers.items =
         <<PyMap([index |-> PyInt(1), name |-> PyStr("Chorus"),
                  position |-> FloatResult(Whole(16))])>>
    /\ last.result.regions.items =
         <<PyMap([index |-> PyInt(1), name |-> PyStr("Intro"),
                  start |-> FloatResult(Whole(0)), end |-> FloatResult(Whole(32))])>>

\* ---- what the facade forwards
\* The tool's arguments with the defaults of its signature filled in.
WithToolDefaults(tool, args) ==
    [k \in DOMAIN args \cup DOMAIN ToolDefaults(tool) |->
        IF k \in DOMAIN args THEN args[k]
        ELSE CASE tool = "create_midi_item" /\ k = "length" -> 4
               [] tool = "set_item_notes" /\ k = "append" -> FALSE
               [] tool \in {"create_track", "create_track_with_fx"} /\ k = "index" -> -1
               [] k = "name" -> ""]
\* The keys the tool forwards: all, but for an empty name of
\* create_track_with_fx.
ForwardedKeys(tool, args) ==
    {k \in DOMAIN WithToolDefaults(tool, args) :
        ~(tool = "create_track_with_fx" /\ k = "name"
          /\ WithToolDefaults(tool, args)[k] = "")}

\* C18: every tool invocation issues exactly one send_command to the client,
\* under the tool's own name, with a mapping that holds the tool's arguments
\* under their names, defaults filled in (create_midi_item length 4,
\* set_item_notes append false, create_track index -1); a tool without
\* parameters passes no parameters; create_track_with_fx forwards name only
\* when it is not empty.
C18_ToolForwardsOnce ==
    (last.op = "tool" /\ client = "FakeReaperClient")
    => LET tool == last.tool
           args == last.tool_args
           sent == commands_sent[Len(commands_sent)] IN
       /\ Len(commands_sent) = Len(last.sent_before) + 1
       /\ SubSeq(commands_sent, 1, Len(last.sent_before)) = last.sent_before
       /\ sent[1] = tool
       /\ last.cmd = tool
       /\ IF tool \in NoParamTools
          THEN /\ last.params = PyNone
               /\ sent[2] = EmptyDict
          ELSE /\ sent[2] = last.params
               /\ ~sent[2].isNone
               /\ DOMAIN sent[2].map = ForwardedKeys(tool, args)
               /\ \A k \in DOMAIN sent[2].map :
                    sent[2].map[k] = WithToolDefaults(tool, args)[k]

\* create_midi_item without a length was forwarded with length 4.
C18_Witness ==
    /\ last.op = "tool"
    /\ client = "FakeReaperClient"
    /\ last.tool_args = [track_index |-> 0, position |-> 0]
    /\ commands_sent = <<<<"create_midi_item",
                          PyDict([track_index |-> 0, position |-> 0, length |-> 4])>>>>

\* create_track_with_fx with an empty name was forwarded without it, after a
\* tool without parameters.
C18_WitnessEmptyName ==
    /\ last.op = "tool"
    /\ client = "FakeReaperClient"
    /\ last.tool_args = [fx_name |-> "ReaEQ", name |-> ""]
    /\ commands_sent = <<<<"get_markers", EmptyDict>>,
                         <<"create_track_with_fx",
                           PyDict([fx_name |-> "ReaEQ", index |-> -1])>>>>

\* ---- the command table and the facade's tools
ToolsForwarding(command) == {i \in DOMAIN Tools : Tools[i].command = command}

\* C19: the command table registers exactly the 33 expected names; the facade
\* declares exactly one tool per registered command and no tool that forwards
\* an unregistered name; so no tool call on the ReapyClient ends in
\* "Unknown command".
C19_OneToolPerCommand ==
    /\ CommandNames = EXPECTED_COMMANDS
    /\ Cardinality(CommandNames) = 33
    /\ Cardinality(ToolNames) = Len(Tools)
    /\ \A c \in CommandNames : Cardinality(ToolsForwarding(c)) = 1
    /\ \A i \in DOMAIN Tools : Tools[i].command \in CommandNames
    /\ (last.op = "tool" /\ client = "ReapyClient")
       => /\ last.cmd = ForwardedCommand(last.tool)
          /\ last.cmd \in CommandNames
          /\ last.error # RuntimeError("Unknown command: " \o last.cmd)
          /\ last.payload.error # RuntimeError("Unknown command: " \o last.cmd)

\* The last declared tool, get_markers, reached its handler on the ReapyClient.
C19_Witness ==
    /\ last.op = "tool"
    /\ client = "ReapyClient"
    /\ last.tool = "get_markers"
    /\ last.invoked
    /\ last.kind = "return"

\* ---- the connection handle
\* The handler of the last call made a native call or ran to its end, so it
\* read self._api and the import, if there was one, succeeded.
LastUsedApi == last.invoked /\ (last.raised = NoExc \/ last.calls # <<>>)

\* C20: the handle is unset at construction; it is set only by a handler's
\* first use of the native API, is the same for all later calls, and is unset
\* again only by a reconfiguration attempt, after which the next native use
\* sets it again; so it is set at most twice in the client's lifetime.
C20_HandleLifecycle ==
    /\ (api_initializations = 0 /\ last.op = "none") => api_module = "None"
    /\ api_initializations <= configure_attempts + 1
    /\ api_initializations <= 2
    /\ (last.op # "none" /\ client = "ReapyClient")
       => /\ last.initializations = 1
             <=> (last.api_before = "None" /\ last.api_after_handler # "None")
          /\ last.initializations = 1 => last.invoked
          /\ last.api_before # "None" => last.api_after_handler = last.api_before
          /\ LastUsedApi => last.api_after_handler = "reapy.reascript_api"
          /\ api_module # last.api_after_handler => last.attempts = 1
          /\ last.attempts = 1 => api_module = "None"
          /\ last.attempts = 0 => api_module = last.api_after_handler

\* The handle was set, unset by the reconfiguration attempt, and has just been
\* set for the second time.
C20_Witness ==
    /\ client = "ReapyClient"
    /\ configure_attempts = 1
    /\ auto_configured
    /\ last.api_before = "None"
    /\ last.initializations = 1
    /\ api_initializations = 2
    /\ api_module = "reapy.reascript_api"

\* The reconfiguration attempt unset a handle that a handler of the same call
\* had set.
C20_WitnessReset ==
    /\ client = "ReapyClient"
    /\ last.initializations = 1
    /\ last.api_after_handler = "reapy.reascript_api"
    /\ last.attempts = 1
    /\ api_module = "None"

\* ---- no retry
\* C21: one send_command invokes the selected handler exactly once; a connection
\* error that triggers the reconfiguration attempt is not followed by a second
\* invocation, and that call ends in a failure whether the attempt succeeded or
\* not.
C21_NoRetry ==
    (last.op # "none" /\ client = "ReapyClient")
    => /\ last.cmd \in CommandNames => (last.invoked /\ last.invocations = 1)
       /\ last.cmd \notin CommandNames => last.invocations = 0
       /\ last.attempts = 1
          => /\ last.invocations = 1
             /\ _is_connection_error(last.raised)
             /\ last.kind = "raise"
             /\ last.error.cls = "RuntimeError"
             /\ last.configure = "ok" => last.error.msg = MsgAutoConfigured
             /\ last.configure # "ok" => last.error.msg = MsgAutoConfigureFailed
             /\ last.result = <<>>

\* A call whose reconfiguration attempt succeeded still ended in a failure.
C21_Witness ==
    /\ client = "ReapyClient"
    /\ last.attempts = 1
    /\ last.configure = "ok"
    /\ last.invocations = 1
    /\ last.kind = "raise"
    /\ last.error.msg = MsgAutoConfigured

\* A call whose reconfiguration attempt failed ended in a failure.
C21_WitnessFailed ==
    /\ client = "ReapyClient"
    /\ last.attempts = 1
    /\ last.configure = "configure_raises"
    /\ last.invocations = 1
    /\ last.kind = "raise"

\* ---- notes of a take that is not MIDI
NoteCommands == {"get_item_notes", "set_item_notes"}
NoteWrites == {"MIDI_CountEvts", "MIDI_DeleteNote", "MIDI_InsertNote", "MIDI_Sort"}
\* The item the last call addressed, as it was before the call.
LastItemBefore ==
    last.tracks_before[last.kwargs.map.track_index + 1]
        .items[last.kwargs.map.item_index + 1]
LastAddressesItem ==
    /\ last.invoked
    /\ last.cmd \in NoteCommands
    /\ last.raised.cls # "TypeError"
    /\ last.kwargs.map.track_index \in 0..(Len(last.tracks_before) - 1)
    /\ last.kwargs.map.item_index
         \in 0..(Len(last.tracks_before[last.kwargs.map.track_index + 1].items) - 1)

\* C22: get_item_notes and set_item_notes fail with "Item does not contain MIDI
\* data" when the item's active take is not a MIDI take, and with "No active
\* take ..." when the item has none; set_item_notes fails before it counts,
\* deletes, inserts or sorts any note, and the project is as before.
C22_NotMidiFails ==
    LastAddressesItem
    => /\ LastItemBefore.take = "audio"
          => /\ last.raised = ValueError("Item does not contain MIDI data")
             /\ last.error = RuntimeError("Item does not contain MIDI data")
             /\ last.calls[Len(last.calls)] = "TakeIsMIDI"
       /\ LastItemBefore.take = "none"
          => /\ last.raised =
                  ValueError("No active take on item "
                             \o ToString(last.kwargs.map.item_index) \o ", track "
                             \o ToString(last.kwargs.map.track_index))
             /\ last.error = RuntimeError(last.raised.msg)
             /\ last.calls[Len(last.calls)] = "GetActiveTake"
       /\ LastItemBefore.take # "midi"
          => /\ last.kind = "raise"
             /\ \A i \in DOMAIN last.calls : last.calls[i] \notin NoteWrites
             /\ tracks = last.tracks_before
       /\ LastItemBefore.take = "midi"
          => last.raised.msg # "Item does not contain MIDI data"

\* set_item_notes with a note to insert failed on an audio take.
C22_Witness ==
    /\ last.cmd = "set_item_notes"
    /\ LastAddressesItem
    /\ LastItemBefore.take = "audio"
    /\ last.kwargs.map.notes # <<>>
    /\ last.error = RuntimeError("Item does not contain MIDI data")

\* get_item_notes failed on an item without a take.
C22_WitnessNoTake ==
    /\ last.cmd = "get_item_notes"
    /\ LastAddressesItem
    /\ LastItemBefore.take = "none"
    /\ last.error = RuntimeError("No active take on item 0, track 0")

\* ---- success and failure by the payload's shape
\* Projects on which every handler has a call that succeeds.
SampleProjects ==
    {<<>>,
     <<[NewTrack EXCEPT !.items = <<MidiItem>>, !.fx = <<NewFx("ReaEQ")>>]>>}
\* What each handler does with its sample arguments on those projects.
HandlerSamples(c) ==
    {Handler(c, Bind(c, a).args, trs, NewProject) :
       a \in Args(c, {0}, {0}, {0}, {0}, {-1}), trs \in SampleProjects}
\* The result mappings of the calls that succeed.
SuccessResults(c) == {h.result : h \in {x \in HandlerSamples(c) : x.exc = NoExc}}
AtConstruction ==
    /\ last.op = "none"
    /\ api_initializations = 0
    /\ configure_attempts = 0
    /\ commands_sent = <<>>
    /\ _responses = <<>>

\* C23: over the ReapyClient every response of a tool is the serialized result
\* mapping of the handler or the single-key object {"error": message}, and no
\* handler's result mapping has the key "error"; so the two are told apart by
\* the payload's shape.
C23_PayloadShape ==
    /\ (last.op = "tool" /\ client = "ReapyClient")
       => /\ last.payload.kind = "return"
          /\ last.payload.text.json = "object"
          /\ last.kind = "return"
             => /\ last.result = last.handler_result
                /\ last.payload.text = Json(PyMap(last.result))
                /\ "error" \notin DOMAIN last.payload.text.members
          /\ last.kind = "raise"
             => last.payload.text =
                  [json |-> "object",
                   members |-> [error |-> [json |-> "string", v |-> last.error.msg]]]
    /\ AtConstruction
       => \A c \in CommandNames :
             /\ SuccessResults(c) # {}
             /\ \A result \in SuccessResults(c) : "error" \notin DOMAIN result

\* A tool failed on the ReapyClient and answered with the error object.
C23_Witness ==
    /\ last.op = "tool"
    /\ client = "ReapyClient"
    /\ last.kind = "raise"
    /\ last.invoked
    /\ DOMAIN last.payload.text.members = {"error"}

\* A tool succeeded on the ReapyClient and answered with the handler's mapping.
C23_WitnessSuccess ==
    /\ last.op = "tool"
    /\ client = "ReapyClient"
    /\ last.tool = "get_track_info"
    /\ last.kind = "return"
    /\ "name" \in DOMAIN last.payload.text.members

\* ---- the loop of delete_all_tracks
\* The passes of the loop of the last delete_all_tracks.
LastDeleteSteps == DeleteSteps(last.tracks_before, Len(last.tracks_before) - 1)

\* C24: delete_all_tracks reads the track count once and deletes from the
\* highest index down to 0; at every pass the index it fetches is within the
\* track count of that moment, and every track of the project is deleted
\* exactly once.
C24_DeleteLoopIndices ==
    (last.invoked /\ last.cmd = "delete_all_tracks" /\ last.raised = NoExc)
    => LET n == Len(last.tracks_before)
           steps == LastDeleteSteps
       IN /\ Len(steps) = n
          /\ last.calls = <<"CountTracks">> \o Repeat(<<"GetTrack", "DeleteTrack">>, n)
          /\ \A k \in 1..n :
               /\ steps[k].index = n - k
               /\ 0 <= steps[k].index
               /\ steps[k].index < steps[k].count
               /\ steps[k].count = n - k + 1
               /\ steps[k].track = <<last.tracks_before[steps[k].index + 1]>>
               /\ steps[k].after = SubSeq(last.tracks_before, 1, n - k)
          /\ \A p \in 1..n :
               Cardinality({k \in 1..n : steps[k].index = p - 1}) = 1
          /\ tracks = (IF n = 0 THEN <<>> ELSE steps[n].after)
          /\ tracks = DeleteTracksFrom(last.tracks_before, n - 1)

\* The loop ran over a project of the largest explored size, whose tracks
\* differ.
C24_Witness ==
    /\ last.invoked
    /\ last.cmd = "delete_all_tracks"
    /\ last.raised = NoExc
    /\ Len(last.tracks_before) = MaxTracks
    /\ last.tracks_before[1] # last.tracks_before[MaxTracks]
    /\ LastDeleteSteps[1].index = MaxTracks - 1
    /\ tracks = <<>>


\* ------------------------------------------------------ duplicate_item
\* Projects with one or two items on the first track and some items selected,
\* as a user of the host may have left them.
HeldItem == [MidiItem EXCEPT !.notes = <<HeldNote(40, 0)>>]
DuplicateProjects ==
    {<<[NewTrack EXCEPT !.items = <<HeldItem>>]>>,
     <<[NewTrack EXCEPT !.items = <<HeldItem, AudioItem>>]>>,
     <<[NewTrack EXCEPT !.items = <<AudioItem>>], [NewTrack EXCEPT !.items = <<HeldItem>>]>>}
DuplicateSelections ==
    {[NewProject EXCEPT !.selected = sel] : sel \in {{}, {<<0, 0>>}, {<<1, 0>>}}}
    \cup {[NewProject EXCEPT !.selected = {<<0, 1>>}, !.cursor = 6]}
DuplicateInputs ==
    {<<"duplicate_item", PyDict(m)>> :
        m \in [track_index : -1..2, item_index : -1..2,
               destination_time : {IntArg(4), FloatArg(Finite(1)), StrArg("bar 3")}]}

InitDuplicate ==
    /\ client = "ReapyClient"
    /\ InitOn(DuplicateProjects, DuplicateSelections)
    /\ \A sel \in project.selected :
          /\ sel[1] < Len(tracks)
          /\ sel[2] < Len(tracks[sel[1] + 1].items)

NextDuplicate ==
    \/ \E inp \in DuplicateInputs :
          DispatchWithin(MaxCopies, "send_command", inp[1], inp[2], NoFault, "", <<>>)
    \/ Return

DuplicateSpec == InitDuplicate /\ [][NextDuplicate]_vars

LastDuplicate == last.invoked /\ last.cmd = "duplicate_item"
LastSource == <<last.kwargs.map.track_index, last.kwargs.map.item_index>>
LastSourceLookup ==
    _get_item(last.tracks_before, last.kwargs.map.track_index, last.kwargs.map.item_index)
LastDestination == PyFloatOf(last.kwargs.map.destination_time)
LastDuplicateTrace ==
    DuplicateTrace([tracks |-> last.tracks_before, project |-> last.project_before,
                    clipboard |-> <<>>],
                   LastSource, _beats_to_time(LastDestination.x))
SelectionCalls == {DuplicateCalls[i] : i \in DOMAIN DuplicateCalls}

C25_WitnessRange ==
    /\ LastDuplicate
    /\ LastSourceLookup.exc # NoExc
    /\ last.kwargs.map.track_index = 0
    /\ last.project_before.selected # {}


\* ---- set_item_notes, both modes
LastNotesBefore == LastItemBefore.notes
LastNotesAfter ==
    tracks[last.kwargs.map.track_index + 1].items[last.kwargs.map.item_index + 1].notes
LastInserted == [i \in DOMAIN LastArgs.notes |-> InsertedNote(LastArgs.notes[i])]
CallCount(call) == Cardinality({i \in DOMAIN last.calls : last.calls[i] = call})
\* held holds the notes of expected, each as often, in some order.
SameNotes(held, expected) ==
    /\ Len(held) = Len(expected)
    /\ \E p \in Permutations(DOMAIN expected) :
          \A i \in DOMAIN expected : held[i] = expected[p[i]]

\* C26: a returning set_item_notes without append deletes every note the take
\* held, one MIDI_DeleteNote per note from the highest index down to 0, so the
\* take then holds exactly the len(notes) new notes; with append it deletes
\* nothing and the take holds the previous notes and the new ones; in both
\* modes MIDI_Sort runs once, after every insertion, and the result is
\* {notes_set: len(notes)}.
C26_ReplaceOrAppend ==
    (last.invoked /\ last.cmd = "set_item_notes" /\ last.kind = "return")
    => LET n == Len(LastNotesBefore) IN
       /\ IF LastAppend
          THEN /\ CallCount("MIDI_DeleteNote") = 0
               /\ CallCount("MIDI_CountEvts") = 0
               /\ SameNotes(LastNotesAfter, LastNotesBefore \o LastInserted)
               /\ Len(LastNotesAfter) = n + Len(LastArgs.notes)
          ELSE /\ CallCount("MIDI_DeleteNote") = n
               /\ \A j \in 0..n :
                     DeleteNotesFrom(SubSeq(LastNotesBefore, 1, j), j - 1) = <<>>
               /\ SameNotes(LastNotesAfter, LastInserted)
               /\ Len(LastNotesAfter) = Len(LastArgs.notes)
       /\ CallCount("MIDI_InsertNote") = Len(LastArgs.notes)
       /\ CallCount("MIDI_Sort") = 1
       /\ last.calls[Len(last.calls)] = "MIDI_Sort"
       /\ LastNotesAfter = MIDI_Sort(LastNotesAfter)
       /\ last.result = [notes_set |-> PyInt(Len(LastArgs.notes))]

\* One note replaced the two notes the take held.
C26_Witness ==
    /\ last.cmd = "set_item_notes"
    /\ last.kind = "return"
    /\ ~LastAppend
    /\ Len(LastNotesBefore) = 2
    /\ Len(LastArgs.notes) = 1
    /\ Len(LastNotesAfter) = 1

\* One note was appended to the two notes the take held.
C26_WitnessAppend ==
    /\ last.cmd = "set_item_notes"
    /\ last.kind = "return"
    /\ LastAppend
    /\ Len(LastNotesBefore) = 2
    /\ Len(LastNotesAfter) = 3


\* ---- create_track
\* index as the latest call was given it (-1 when left out).
LastIndexArg == IF "index" \in DOMAIN LastArgs THEN LastArgs.index ELSE -1
LastCreatedTrack == last.invoked /\ last.cmd = "create_track" /\ last.raised = NoExc
\* The new track stands at position at, the tracks before it stayed and the
\* tracks from it on moved up by one; the call returned at as "index".
InsertedAndReturned(at) ==
    LET before == last.tracks_before
        count == Len(before)
    IN /\ last.kind = "return"
       /\ last.result.index = PyInt(at)
       /\ Len(tracks) = count + 1
       /\ at + 1 \in DOMAIN tracks
       /\ tracks[at + 1] = NewTrack
       /\ \A p \in 0..(count - 1) :
             IF p < at THEN tracks[p + 1] = before[p + 1]
                       ELSE tracks[p + 2] = before[p + 1]

\* C27: create_track with index -1 (given or left out) puts the new track at
\* the former track count and returns that count as "index"; with an index in
\* 0..count it puts it at that index and returns it; either way the project
\* has one track more and the tracks from the index on moved up by one.
C27_CreateTrackInRange ==
    (LastCreatedTrack /\ LastIndexArg \in -1..Len(last.tracks_before))
    => InsertedAndReturned(IF LastIndexArg = -1 THEN Len(last.tracks_before)
                           ELSE LastIndexArg)

\* The same for every index: what is returned as "index" is where the new
\* track stands.
C27_CreateTrackAnyIndex ==
    LastCreatedTrack
    => InsertedAndReturned(IF LastIndexArg = -1 THEN Len(last.tracks_before)
                           ELSE LastIndexArg)

\* A track was inserted before a named track, which moved up.
C27_Witness ==
    /\ LastCreatedTrack
    /\ LastIndexArg = 0
    /\ Len(last.tracks_before) = 1
    /\ last.tracks_before[1].name = "Lead"
    /\ tracks[2] = last.tracks_before[1]

\* A track was appended by the sentinel to a project that held one.
C27_WitnessAppend ==
    /\ LastCreatedTrack
    /\ LastIndexArg = -1
    /\ Len(last.tracks_before) = 1
    /\ last.result.index = PyInt(1)
    /\ tracks[1] = last.tracks_before[1]

\* An index past the end was returned as given, with no track standing there.
C27_WitnessPastEnd ==
    /\ LastCreatedTrack
    /\ LastIndexArg = 1
    /\ Len(last.tracks_before) = 0
    /\ last.result = [index |-> PyInt(1), name |-> PyStr("")]
    /\ Len(tracks) = 1


\* ------------------------------------------------------ get_project_info
\* Projects whose transport is stopped, playing, paused, recording or paused
\* while recording.
PlayStates == {0, 1, 2, 5, 6}
TransportProjects == {[NewProject EXCEPT !.play_state = ps] : ps \in PlayStates}
ProjectInfoInputs ==
    {<<"get_project_info", p>> : p \in {PyNone, EmptyDict}}
    \cup {<<"set_time_signature", PyDict(m)>> :
             m \in [numerator : {3, 7}, denominator : {4, 8}]}
    \cup {<<c, PyNone>> : c \in {"start_playback", "stop_playback"}}

InitProjectInfo ==
    /\ client = "ReapyClient"
    /\ InitOn(InitialProjects, TransportProjects)

NextProjectInfo ==
    \/ /\ last.op = "none"
       /\ \E inp \in ProjectInfoInputs : SendCommand(inp[1], inp[2], NoFault)
    \/ Return

ProjectInfoSpec == InitProjectInfo /\ [][NextProjectInfo]_vars

LastReadInfo == last.invoked /\ last.cmd = "get_project_info" /\ last.raised = NoExc

\* C28: get_project_info reports signature_denominator 4 whatever denominator
\* the project's time signature has, is_playing as bit 1 and is_recording as
\* bit 4 of the play state, and leaves the project as it was.
C28_ProjectInfo ==
    LastReadInfo
    => /\ last.kind = "return"
       /\ last.result.signature_denominator = PyInt(4)
       /\ last.result.is_playing = PyBool(last.project_before.play_state \in {1, 3, 5, 7})
       /\ last.result.is_recording = PyBool(last.project_before.play_state \in {4, 5, 6, 7})
       /\ last.result.track_count = PyInt(Len(last.tracks_before))
       /\ \A i \in DOMAIN last.calls : last.calls[i] \notin MutatingCalls
       /\ tracks = last.tracks_before
       /\ project = last.project_before

\* The project was read while recording, after set_time_signature had written
\* a denominator of 8.
C28_Witness ==
    /\ LastReadInfo
    /\ project.signature.denominator = 8
    /\ project.play_state = 5
    /\ last.result.is_playing = PyBool(TRUE)
    /\ last.result.is_recording = PyBool(TRUE)

\* The project was read while paused: neither playing nor recording.
C28_WitnessPaused ==
    /\ LastReadInfo
    /\ project.play_state = 2
    /\ last.result.is_playing = PyBool(FALSE)
    /\ last.result.is_recording = PyBool(FALSE)


\* ---- create_track_with_fx
LastFxNotFound ==
    /\ last.invoked
    /\ last.cmd = "create_track_with_fx"
    /\ last.raised.cls = "ValueError"
\* index and name as the latest call was given them (-1 and no name when
\* left out).
LastTrackName == IF "name" \in DOMAIN LastArgs THEN LastArgs.name ELSE ""
LastInsertion ==
    IF LastIndexArg = -1 THEN Len(last.tracks_before) ELSE LastIndexArg
CallAt(call) == CHOOSE i \in DOMAIN last.calls : last.calls[i] = call

\* C29: when create_track_with_fx fails with "FX not found" the new track is
\* already in the project, under the given name when one was given: the call
\* raises after InsertTrackAtIndex (and the renaming), the track count is one
\* more than before the call and the other tracks are as they were.
C29_TrackStaysOnFxError ==
    LastFxNotFound
    => LET before == last.tracks_before
           at == Clamp(0, Len(before), LastInsertion)
       IN /\ last.raised = ValueError("FX not found: " \o LastArgs.fx_name)
          /\ last.kind = "raise"
          /\ last.error = RuntimeError("FX not found: " \o LastArgs.fx_name)
          /\ CallCount("InsertTrackAtIndex") = 1
          /\ CallAt("InsertTrackAtIndex") < CallAt("TrackFX_AddByName")
          /\ last.calls[Len(last.calls)] = "TrackFX_AddByName"
          /\ (LastTrackName # ""
              => /\ CallCount("GetSetMediaTrackInfo_String(set)") = 1
                 /\ CallAt("InsertTrackAtIndex") < CallAt("GetSetMediaTrackInfo_String(set)")
                 /\ CallAt("GetSetMediaTrackInfo_String(set)") < CallAt("TrackFX_AddByName"))
          /\ Len(tracks) = Len(before) + 1
          /\ (LastInsertion \in 0..Len(before)
              => tracks[at + 1] = [NewTrack EXCEPT !.name = LastTrackName])
          /\ tracks[at + 1].fx = <<>>
          /\ \A p \in 1..Len(before) :
                tracks[IF p <= at THEN p ELSE p + 1] = before[p]

\* An FX the host does not know was asked for on a named new track of a
\* project that held one track.
C29_Witness ==
    /\ LastFxNotFound
    /\ LastArgs.fx_name \notin InstalledFx
    /\ LastTrackName = "Lead"
    /\ LastIndexArg = 0
    /\ Len(last.tracks_before) = 1
    /\ Len(tracks) = 2
    /\ tracks[1].name = "Lead"

\* The same without a name and an index.
C29_WitnessUnnamed ==
    /\ LastFxNotFound
    /\ DOMAIN LastArgs = {"fx_name"}
    /\ Len(tracks) = 1 + Len(last.tracks_before)


\* ---- the flag
ExternalSteps == {"import reapy", "reapy.configure_reaper()"}

\* C30: a reconfiguration attempt sets the flag and clears the handle before
\* it imports reapy and calls reapy.configure_reaper(), and both stay so
\* however that step ends; a call that starts with the flag set makes no
\* attempt and ends with the flag set, so a failed attempt is not repeated and
\* the flag is never cleared.
C30_FlagSetBeforeConfigure ==
    /\ configure_attempts >= 1 => auto_configured
    /\ last.flag_before => (auto_configured /\ last.attempts = 0)
    /\ last.attempts = 1
       => LET steps == AutoConfigureSteps(last.configure) IN
          /\ \A i \in DOMAIN steps :
                steps[i].step \in ExternalSteps
                => /\ i > 2
                   /\ steps[i].written = [auto_configured |-> TRUE, api_module |-> "None"]
          /\ last.configure # "import_raises"
             => \E i \in DOMAIN steps : steps[i].step = "reapy.configure_reaper()"
          /\ ~last.flag_before
          /\ auto_configured
          /\ api_module = "None"

\* The configure step raised in an attempt that found a loaded handle.
C30_Witness ==
    /\ last.attempts = 1
    /\ last.configure = "configure_raises"
    /\ last.api_after_handler = "reapy.reascript_api"
    /\ last.error.msg = MsgAutoConfigureFailed
    /\ auto_configured
    /\ api_module = "None"

\* A connection error after an attempt that failed on its import: no second
\* attempt.
C30_WitnessLater ==
    /\ last.invoked
    /\ last.flag_before
    /\ last.raised.cls \in ConnectionClasses
    /\ configure_attempts = 1
    /\ configure_calls = 0
    /\ last.attempts = 0

=============================================================================
